---- MODULE Spec2Model ----
(***************************************************************************)
(* Trading-cycle engine of neural-order: paper-mode position bookkeeping   *)
(* and balance reconciliation, the signed-order client, live-mode          *)
(* reconciliation against the exchange, the decision adapters, the price   *)
(* feed with its cache, the trading cron, the resolution of an agent's     *)
(* wallet, the signed requests statement by statement, and the database    *)
(* connection cache.                                                       *)
(*                                                                         *)
(* Money and prices are whole numbers; a quotient the source computes in   *)
(* floating point is rounded down.  Percentages that the source compares   *)
(* against a threshold are compared by cross-multiplication.               *)
(***************************************************************************)
EXTENDS Integers, Sequences, FiniteSets, TLC

\* ------------------------------------------------------------------ bounds
MaxPositions == 2
MaxTrades == 2

\* ------------------------------------------------------- program constants
INITIAL_BALANCE == 1000
ExposureLimitPct == 70

\* ----------------------------------------------------------- input domains
Symbols == {"BTC", "ETH"}
SymbolOrder == <<"BTC", "ETH">>
PriceSet == {100, 200}
\* Math.random() draws of the simulated provider: confidence in percent and
\* an index into LEVERAGE_OPTIONS
ConfidenceSet == {80}
LeverageIndexSet == {1, 6}
\* sizes a language-model reply proposes
LLMSizeSet == {400}

LEVERAGE_OPTIONS == <<5, 8, 10, 12, 15, 20>>

VARIABLES
  price,        \* exchange ticker: coin -> current price
  marketData,   \* the snapshot the cycle holds: [prices, volatility]
  agent,        \* the Agent document as the worker holds it
  trades,       \* the Trade collection of the agent, oldest first
  hasOpenAIKey, \* process.env.OPENAI_API_KEY is set
  lastOp,       \* the operation that produced the current state, with its results
  now,          \* Date.now(), in milliseconds
  sigIn,        \* the inputs of two generateAsterSignature invocations
  sigA,         \* the first invocation: when it ran and what it returned
  sigB,         \* the second invocation
  liveAgent,    \* the Agent document of a live-mode agent, in memory
  savedAgent,   \* the same document as last saved
  placeCalls,   \* calls of placeAsterOrder so far
  requestsSent, \* order requests handed to fetch so far
  livePc,       \* where the live agent's turn stands
  liveLast,     \* the last live operation and what it returned
  unitIn,       \* the arguments of one call of a function of the engine
  unitOut,      \* what that call returned
  priceCache,   \* fetchAllPrices: the module-level cache [data, timestamp]
  fetchLast,    \* the last fetchAllPrices call: the reply it met and its result
  cycles,       \* the cron callbacks in progress, each with its position
  cronLast,     \* the last step of the cron
  pending,      \* asynchronous calls under way, each with its position and locals
  jobs,         \* the microtask queue: continuations ready to run, oldest first
  promises,     \* the promises of the connection attempts, each with its state
  cached        \* connectDB: the global cache [conn, promise]

paperVars == <<price, marketData, agent, trades, hasOpenAIKey, lastOp>>
signVars == <<now, sigIn, sigA, sigB>>
liveVars == <<liveAgent, savedAgent, placeCalls, requestsSent, livePc, liveLast>>
unitVars == <<unitIn, unitOut>>
feedVars == <<priceCache, fetchLast>>
cronVars == <<cycles, cronLast>>
asyncVars == <<pending, jobs, promises, cached>>
restVars == <<unitVars, feedVars, cronVars, asyncVars>>
vars == <<paperVars, signVars, liveVars, restVars>>

\* ------------------------------------------------------------------ helpers
Max(a, b) == IF a >= b THEN a ELSE b

RECURSIVE SumSizeUsd(_)
SumSizeUsd(ps) ==
  IF ps = <<>> THEN 0 ELSE Head(ps).size_usd + SumSizeUsd(Tail(ps))

\* the empty object {}
EmptyMap == [c \in {} |-> 0]

\* !currentPrices[coin] : the coin is missing from the map or its price is 0
HasPrice(prices, coin) == coin \in DOMAIN prices /\ prices[coin] # 0

\* --------------------------------------------------------------- PnL maths
\* a PnL that takes every position for a long
calculatePnL_LongOnly(side, entryPrice, exitPrice) ==
  ((exitPrice - entryPrice) * 100) \div entryPrice

\* ((exit - entry) / entry) * 100 for a long, the opposite for a short
calculatePnL(side, entryPrice, exitPrice) ==
  IF side = "long"
  THEN ((exitPrice - entryPrice) * 100) \div entryPrice
  ELSE ((entryPrice - exitPrice) * 100) \div entryPrice

\* (pnlPercent / 100) * size_usd, kept in one quotient
PnlAbsoluteOf(position, currentPrice) ==
  IF position.signal = "long"
  THEN ((currentPrice - position.entry_price) * position.size_usd) \div position.entry_price
  ELSE ((position.entry_price - currentPrice) * position.size_usd) \div position.entry_price

\* ------------------------------------------------------- balance calculator
RECURSIVE getRealizedPnL(_)
getRealizedPnL(trs) ==
  IF trs = <<>> THEN 0
  ELSE (IF Head(trs).tradeType = "exit" THEN Head(trs).pnlAbsolute ELSE 0)
       + getRealizedPnL(Tail(trs))

RECURSIVE calculateUnrealizedPnL(_, _)
calculateUnrealizedPnL(activePositions, currentPrices) ==
  IF activePositions = <<>> THEN 0
  ELSE LET position == Head(activePositions)
           rest == calculateUnrealizedPnL(Tail(activePositions), currentPrices)
       IN  IF ~HasPrice(currentPrices, position.coin)
           THEN rest
           ELSE PnlAbsoluteOf(position, currentPrices[position.coin]) + rest

\* a balance that forgets the open positions
calculateAgentBalance_RealizedOnly(ag, trs, currentPrices) ==
  INITIAL_BALANCE + getRealizedPnL(trs)

calculateAgentBalance(ag, trs, currentPrices) ==
  INITIAL_BALANCE + getRealizedPnL(trs)
    + calculateUnrealizedPnL(ag.activePositions, currentPrices)

ExitTrades(trs) == SelectSeq(trs, LAMBDA t : t.tradeType = "exit")
WinningTrades(trs) == SelectSeq(ExitTrades(trs), LAMBDA t : t.pnl > 0)

\* a reconciliation that adds the PnL to the stored balance
updateAgentBalance_Accumulating(ag, trs, currentPrices) ==
  LET newBalance == ag.balance + getRealizedPnL(trs)
                      + calculateUnrealizedPnL(ag.activePositions, currentPrices)
      exitTrades == ExitTrades(trs)
      withBalance == [ag EXCEPT !.balance = newBalance,
                                !.pnlAbsolute = newBalance - INITIAL_BALANCE,
                                !.pnl = ((newBalance - INITIAL_BALANCE) * 100) \div INITIAL_BALANCE]
  IN  IF Len(exitTrades) > 0
      THEN [withBalance EXCEPT
              !.winRate = (Len(WinningTrades(trs)) * 100) \div Len(exitTrades),
              !.totalTrades = Len(exitTrades)]
      ELSE withBalance

\* a reconciliation that counts every trade, entries included
updateAgentBalance_CountAllTrades(ag, trs, currentPrices) ==
  LET newBalance == calculateAgentBalance(ag, trs, currentPrices)
      withBalance == [ag EXCEPT !.balance = newBalance,
                                !.pnlAbsolute = newBalance - INITIAL_BALANCE,
                                !.pnl = ((newBalance - INITIAL_BALANCE) * 100) \div INITIAL_BALANCE]
  IN  IF Len(trs) > 0
      THEN [withBalance EXCEPT
              !.winRate = (Len(SelectSeq(trs, LAMBDA t : t.pnl > 0)) * 100) \div Len(trs),
              !.totalTrades = Len(trs)]
      ELSE withBalance

\* the agent after updateAgentBalance(agent, currentPrices), save included
updateAgentBalance(ag, trs, currentPrices) ==
  LET newBalance == calculateAgentBalance(ag, trs, currentPrices)
      exitTrades == ExitTrades(trs)
      withBalance == [ag EXCEPT !.balance = newBalance,
                                !.pnlAbsolute = newBalance - INITIAL_BALANCE,
                                !.pnl = ((newBalance - INITIAL_BALANCE) * 100) \div INITIAL_BALANCE]
  IN  IF Len(exitTrades) > 0
      THEN [withBalance EXCEPT
              !.winRate = (Len(WinningTrades(trs)) * 100) \div Len(exitTrades),
              !.totalTrades = Len(exitTrades)]
      ELSE withBalance

\* ------------------------------------------------------------ market data
\* volatility is price * 0.02, kept in hundredths
MarketDataOf(prices) ==
  [prices |-> prices, volatility |-> [c \in DOMAIN prices |-> prices[c] * 2]]

\* getMarketData(): the price map of fetchAllPrices, or empty data when it throws
getMarketData(fetchOk, prices) ==
  IF fetchOk THEN MarketDataOf(prices) ELSE MarketDataOf(EmptyMap)

\* --------------------------------------------------------- decision engine
Signals == {"wait", "hold", "long", "short", "close"}

\* absent fields of trade_signal_args are 0
DecisionOf(coin, signal, entryPrice, sizeUsd, leverage, stopLoss, profitTarget, confidence) ==
  [coin |-> coin, signal |-> signal, entry_price |-> entryPrice,
   size_usd |-> sizeUsd, leverage |-> leverage, stop_loss |-> stopLoss,
   profit_target |-> profitTarget, confidence |-> confidence]

PutDecision(decisions, coin, d) ==
  [c \in DOMAIN decisions \cup {coin} |-> IF c = coin THEN d ELSE decisions[c]]

HasActivePosition(activePositions, coin) ==
  \E i \in 1..Len(activePositions) : activePositions[i].coin = coin

\* exposurePercent >= 70, where exposurePercent = totalExposure / balance * 100
ExposureAtLeast(totalExposure, balance, pct) ==
  IF balance > 0 THEN totalExposure * 100 >= pct * balance
  ELSE IF balance < 0 THEN totalExposure * 100 <= pct * balance
  ELSE totalExposure > 0

\* the exit test of the loop over activePositions, with the reason its
\* justification names
ExitReason(position, currentPrice) ==
  IF currentPrice <= position.stop_loss \/ currentPrice >= position.profit_target
  THEN IF currentPrice <= position.stop_loss THEN "stop_loss" ELSE "take_profit"
  ELSE "none"

\* the loop over activePositions: close on stop loss / take profit, else hold
RECURSIVE ExitDecisions(_, _, _)
ExitDecisions(activePositions, md, decisions) ==
  IF activePositions = <<>> THEN decisions
  ELSE LET position == Head(activePositions)
           rest == Tail(activePositions)
       IN  IF ~HasPrice(md.prices, position.coin)
           THEN ExitDecisions(rest, md, decisions)
           ELSE LET currentPrice == md.prices[position.coin]
                    d == IF currentPrice <= position.stop_loss
                            \/ currentPrice >= position.profit_target
                         THEN DecisionOf(position.coin, "close", currentPrice, 0, 0, 0, 0, 0)
                         ELSE DecisionOf(position.coin, "hold", 0, 0, 0, 0, 0, 0)
                IN  ExitDecisions(rest, md, PutDecision(decisions, position.coin, d))

\* the trade generated for one coin from the Math.random() draws rnd
EntryDecision(ag, md, coin, rnd) ==
  LET currentPrice == md.prices[coin]
      confidence == rnd.confidence
      signal == IF rnd.long THEN "long" ELSE "short"
      leverage == LEVERAGE_OPTIONS[rnd.leverageIndex]
      \* baseRisk = 5 + confidence * 10, riskUsd = balance * baseRisk / 100
      sizeUsd == (ag.balance * (50 + confidence) * leverage) \div 1000
      volatility == IF coin \in DOMAIN md.volatility /\ md.volatility[coin] # 0
                    THEN md.volatility[coin] ELSE 100
      stopLossPercent == Max(30, volatility \div 2)
      takeProfitPercent == Max(50, (volatility * 3) \div 2)
      stopLoss == IF signal = "long"
                  THEN (currentPrice * (10000 - stopLossPercent)) \div 10000
                  ELSE (currentPrice * (10000 + stopLossPercent)) \div 10000
      profitTarget == IF signal = "long"
                      THEN (currentPrice * (10000 + takeProfitPercent)) \div 10000
                      ELSE (currentPrice * (10000 - takeProfitPercent)) \div 10000
  IN  DecisionOf(coin, signal, currentPrice, sizeUsd, leverage, stopLoss, profitTarget, confidence)

\* the loop over availableMarkets
RECURSIVE EntryDecisions(_, _, _, _, _)
EntryDecisions(ag, md, coins, rnd, decisions) ==
  IF coins = <<>> THEN decisions
  ELSE LET coin == Head(coins)
           rest == Tail(coins)
       IN  IF coin \notin DOMAIN md.prices
              \/ HasActivePosition(ag.activePositions, coin)
              \/ ~HasPrice(md.prices, coin)
           THEN EntryDecisions(ag, md, rest, rnd, decisions)
           ELSE IF ~rnd[coin].shouldTrade
           THEN EntryDecisions(ag, md, rest, rnd,
                  PutDecision(decisions, coin, DecisionOf(coin, "wait", 0, 0, 0, 0, 0, 0)))
           ELSE EntryDecisions(ag, md, rest, rnd,
                  PutDecision(decisions, coin, EntryDecision(ag, md, coin, rnd[coin])))

\* generateAgentDecision without OPENAI_API_KEY
SimulatedDecisions(ag, md, rnd) ==
  LET totalExposure == SumSizeUsd(ag.activePositions)
      exits == ExitDecisions(ag.activePositions, md, EmptyMap)
  IN  IF ExposureAtLeast(totalExposure, ag.balance, ExposureLimitPct)
      THEN exits
      ELSE EntryDecisions(ag, md, SymbolOrder, rnd, exits)

\* generateAITradingDecision returns the parsed reply as it is; a failed call
\* or unparseable reply gives {decisions: {}}
generateAITradingDecision(replyOk, reply) ==
  IF replyOk THEN reply ELSE EmptyMap

generateAgentDecision(ag, md, openAIKey, replyOk, reply, rnd) ==
  IF openAIKey THEN generateAITradingDecision(replyOk, reply)
  ELSE SimulatedDecisions(ag, md, rnd)

\* ------------------------------------------------------------ executeTrade
NoPosition ==
  [coin |-> "", entry_price |-> 0, profit_target |-> 0, stop_loss |-> 0,
   leverage |-> 0, size_usd |-> 0, signal |-> ""]

executeTrade(ag, decision, marketPrice) ==
  IF decision.signal = "wait" \/ decision.signal = "hold"
  THEN [success |-> FALSE, hasNewPosition |-> FALSE, newPosition |-> NoPosition]
  ELSE IF decision.signal = "close"
  THEN [success |-> TRUE, hasNewPosition |-> FALSE, newPosition |-> NoPosition]
  ELSE [success |-> TRUE, hasNewPosition |-> TRUE,
        newPosition |-> [coin |-> decision.coin, entry_price |-> marketPrice,
                         profit_target |-> decision.profit_target,
                         stop_loss |-> decision.stop_loss,
                         leverage |-> decision.leverage,
                         size_usd |-> decision.size_usd,
                         signal |-> decision.signal]]

\* -------------------------------------------------- paper worker (one turn)
EntryTrade(coin) ==
  [tradeType |-> "entry", coin |-> coin, pnl |-> 0, pnlAbsolute |-> 0]

ExitTrade(position, exitPrice) ==
  [tradeType |-> "exit", coin |-> position.coin,
   pnl |-> calculatePnL(position.signal, position.entry_price, exitPrice),
   pnlAbsolute |-> PnlAbsoluteOf(position, exitPrice)]

FirstIndexOf(activePositions, coin) ==
  CHOOSE i \in 1..Len(activePositions) :
    /\ activePositions[i].coin = coin
    /\ \A j \in 1..(i - 1) : activePositions[j].coin # coin

RemoveAt(seq, i) == SubSeq(seq, 1, i - 1) \o SubSeq(seq, i + 1, Len(seq))

ResultOf(decision, hadPosition, result, created, exitAppended, st) ==
  [signal |-> decision.signal, hadPosition |-> hadPosition,
   success |-> result.success, created |-> created,
   exitAppended |-> exitAppended,
   exposure |-> SumSizeUsd(st.agent.activePositions),
   balance |-> st.agent.balance,
   realized |-> getRealizedPnL(st.trades)]

\* the worker applies the result of executeTrade for one coin: a new position
\* is pushed with its entry trade; a close finds the open position of the
\* coin, stores the exit trade and removes it; the balance is recomputed
ApplyDecision(st, decision, md) ==
  LET coin == decision.coin
      marketPrice == md.prices[coin]
      hadPosition == HasActivePosition(st.agent.activePositions, coin)
      result == executeTrade(st.agent, decision, marketPrice)
  IN  IF result.success /\ result.hasNewPosition
      THEN LET pushed == [st.agent EXCEPT
                            !.activePositions = Append(@, result.newPosition)]
               trs == Append(st.trades, EntryTrade(coin))
               next == [agent |-> updateAgentBalance(pushed, trs, md.prices),
                        trades |-> trs, results |-> st.results]
           IN  [next EXCEPT !.results =
                  PutDecision(@, coin, ResultOf(decision, hadPosition, result, TRUE, FALSE, next))]
      ELSE IF result.success /\ decision.signal = "close" /\ hadPosition
      THEN LET i == FirstIndexOf(st.agent.activePositions, coin)
               position == st.agent.activePositions[i]
               trs == Append(st.trades, ExitTrade(position, marketPrice))
               removed == [st.agent EXCEPT !.activePositions = RemoveAt(@, i)]
               next == [agent |-> updateAgentBalance(removed, trs, md.prices),
                        trades |-> trs, results |-> st.results]
           IN  [next EXCEPT !.results =
                  PutDecision(@, coin, ResultOf(decision, hadPosition, result, FALSE, TRUE, next))]
      ELSE [st EXCEPT !.results =
              PutDecision(@, coin, ResultOf(decision, hadPosition, result, FALSE, FALSE, st))]

RECURSIVE ApplyDecisions(_, _, _, _)
ApplyDecisions(st, coins, decisions, md) ==
  IF coins = <<>> THEN st
  ELSE LET coin == Head(coins)
       IN  IF coin \in DOMAIN decisions /\ HasPrice(md.prices, coin)
           THEN ApplyDecisions(ApplyDecision(st, decisions[coin], md),
                               Tail(coins), decisions, md)
           ELSE ApplyDecisions(st, Tail(coins), decisions, md)

\* one agent's turn: reconcile, decide, execute each decision
ProcessTurn(ag, trs, md, openAIKey, replyOk, reply, rnd) ==
  LET reconciled == updateAgentBalance(ag, trs, md.prices)
      decisions == generateAgentDecision(reconciled, md, openAIKey, replyOk, reply, rnd)
  IN  ApplyDecisions([agent |-> reconciled, trades |-> trs, results |-> EmptyMap],
                     SymbolOrder, decisions, md)

\* ----------------------------------------------------- inputs of one turn
NoTradeDraw ==
  [shouldTrade |-> FALSE, confidence |-> 80, long |-> TRUE, leverageIndex |-> 1]

\* the draws that matter: no trade, or a trade with its confidence, side, leverage
RandomDraws ==
  {NoTradeDraw}
  \cup [shouldTrade : {TRUE}, confidence : ConfidenceSet,
        long : BOOLEAN, leverageIndex : LeverageIndexSet]

\* what a language-model reply may say about one coin at a given price
LLMDecisionSet(coin, p) ==
  {DecisionOf(coin, s, 0, 0, 0, 0, 0, 0) : s \in {"wait", "hold", "close"}}
  \cup {DecisionOf(coin, "long", p, size, 10, (p * 95) \div 100, (p * 110) \div 100, 80) :
          size \in LLMSizeSet}
  \cup {DecisionOf(coin, "short", p, size, 10, (p * 105) \div 100, (p * 90) \div 100, 80) :
          size \in LLMSizeSet}

LLMReplies(md) ==
  UNION {{r \in [S -> UNION {LLMDecisionSet(c, md.prices[c]) : c \in S}] :
            \A c \in S : r[c].coin = c} : S \in SUBSET (DOMAIN md.prices)}

\* ----------------------------------------------------------------- signing
\* A string is a sequence of tokens; " " is whitespace.  A parameter value is
\* a string, a number, null or undefined.
Str(chars) == [t |-> "string", s |-> chars, n |-> 0]
Num(n) == [t |-> "number", s |-> <<>>, n |-> n]
Null == [t |-> "null", s |-> <<>>, n |-> 0]
Undefined == [t |-> "undefined", s |-> <<>>, n |-> 0]

Digits == <<"0", "1", "2", "3", "4", "5", "6", "7", "8", "9">>

\* String(n) of a non-negative integer
RECURSIVE NumberToString(_)
NumberToString(n) ==
  IF n < 10 THEN <<Digits[n + 1]>>
  ELSE NumberToString(n \div 10) \o <<Digits[(n % 10) + 1]>>

\* String(value)
ToStringValue(v) == IF v.t = "number" THEN NumberToString(v.n) ELSE v.s

\* the parameter names of the model, in ascending ASCII order
KeyOrder == <<"leverage", "positionSide", "quantity", "recvWindow", "reduceOnly", "side",
              "stopPrice", "symbol", "timestamp", "type">>

RECV_WINDOW == 50000

\* { ...a, ...b }
Merge(a, b) ==
  [k \in DOMAIN a \cup DOMAIN b |-> IF k \in DOMAIN b THEN b[k] ELSE a[k]]

\* drops null / undefined, turns every other value into its string
trimAndSortParams(params) ==
  LET kept == {k \in DOMAIN params : params[k].t \notin {"null", "undefined"}}
  IN  [k \in kept |-> ToStringValue(params[k])]

\* Object.keys(trimmed).sort()
SortedKeys(trimmed) == SelectSeq(KeyOrder, LAMBDA k : k \in DOMAIN trimmed)

\* a string value inside the JSON text: JSON.stringify escapes a double quote,
\* then whitespace is removed and every single quote becomes a double quote
RECURSIVE JsonChars(_)
JsonChars(chars) ==
  IF chars = <<>> THEN <<>>
  ELSE LET c == Head(chars)
           out == IF c = " " THEN <<>>
                  ELSE IF c = "'" THEN <<"\"">>
                  ELSE IF c = "\"" THEN <<"\\", "\"">>
                  ELSE <<c>>
       IN  out \o JsonChars(Tail(chars))

RECURSIVE JsonMembers(_, _)
JsonMembers(keys, trimmed) ==
  IF keys = <<>> THEN <<>>
  ELSE LET k == Head(keys)
           member == <<"\"", k, "\"", ":", "\"">> \o JsonChars(trimmed[k]) \o <<"\"">>
       IN  IF Tail(keys) = <<>> THEN member
           ELSE member \o <<",">> \o JsonMembers(Tail(keys), trimmed)

\* JSON.stringify(trimmed, sortedKeys).replace(/\s/g, '').replace(/'/g, '"')
CanonicalJson(trimmed) ==
  <<"{">> \o JsonMembers(SortedKeys(trimmed), trimmed) \o <<"}">>

\* the string that is signed when the clock reads clockNow
SignedJson(params, clockNow) ==
  LET paramsWithMeta ==
        Merge(params, [k \in {"recvWindow", "timestamp"} |->
                         IF k = "recvWindow" THEN Num(RECV_WINDOW) ELSE Num(clockNow)])
  IN  CanonicalJson(trimAndSortParams(paramsWithMeta))

\* ABI encoding, Keccak-256 and the personal-message signature are taken as
\* collision free: the signature stands for what was encoded and the key
SignatureOver(jsonStr, walletConfig, nonce) ==
  [encoded |-> <<jsonStr, walletConfig.user, walletConfig.signer, nonce>>,
   key |-> walletConfig.privateKey]

generateAsterSignature(params, walletConfig, nonce, clockNow) ==
  SignatureOver(SignedJson(params, clockNow), walletConfig, nonce)

\* ---------------------------------------------------- signing: two callers
MaxClock == 3

CallerKeys == {"quantity", "timestamp"}
CallerValues == {Str(<<"5">>), Num(5), Str(<<"5", " ">>), Null, Undefined}
CallerParams == [CallerKeys -> CallerValues]
Wallets ==
  {[user |-> "0xU1", signer |-> "0xS1", privateKey |-> "k1"],
   [user |-> "0xU1", signer |-> "0xS2", privateKey |-> "k2"]}
Nonces == {1000, 2000}

NoSignature ==
  [done |-> FALSE, at |-> 0, jsonStr |-> <<>>,
   signature |-> SignatureOver(<<>>, [user |-> "", signer |-> "", privateKey |-> ""], 0)]

Invocation(params, walletConfig, nonce, clockNow) ==
  [done |-> TRUE, at |-> clockNow, jsonStr |-> SignedJson(params, clockNow),
   signature |-> generateAsterSignature(params, walletConfig, nonce, clockNow)]

IdleSign ==
  /\ now = 1
  /\ sigIn = [paramsA |-> [k \in CallerKeys |-> Null], paramsB |-> [k \in CallerKeys |-> Null],
              walletA |-> CHOOSE w \in Wallets : TRUE, walletB |-> CHOOSE w \in Wallets : TRUE,
              nonceA |-> 0, nonceB |-> 0]
  /\ sigA = NoSignature
  /\ sigB = NoSignature

\* ------------------------------------------------------------ order client
MaxOrders == 3

OrderStatuses == {"NEW", "PARTIALLY_FILLED", "FILLED", "CANCELED", "REJECTED", "EXPIRED"}

\* what fetch does with a request: it rejects (transport), or resolves with a
\* non-2xx status, or resolves 2xx with a body
Transport == [kind |-> "transport", status |-> "", executedQty |-> <<>>]
Non2xx == [kind |-> "non2xx", status |-> "", executedQty |-> <<>>]
OrderOk(status) ==
  [kind |-> "ok", status |-> status,
   executedQty |-> IF status \in {"FILLED", "PARTIALLY_FILLED"} THEN <<"1">> ELSE <<"0">>]
EntryOutcomes == {Transport, Non2xx} \cup {OrderOk(st) : st \in OrderStatuses}
FollowUpOutcomes == {Transport, Non2xx, OrderOk("NEW")}

\* generateNonce(): microseconds
generateNonce(clockNow) == clockNow * 1000

\* a request that repeats itself after a transport failure
placeAsterOrder_Resend(orderParams, walletConfig, clockNow, outcome) ==
  LET nonce == generateNonce(clockNow)
      signature == generateAsterSignature(orderParams, walletConfig, nonce, clockNow)
      requestBody == [params |-> orderParams, nonce |-> NumberToString(nonce),
                      user |-> walletConfig.user, signer |-> walletConfig.signer,
                      signature |-> signature, recvWindow |-> RECV_WINDOW,
                      timestamp |-> clockNow]
  IN  [sent |-> IF outcome.kind = "transport" THEN <<requestBody, requestBody>>
                ELSE <<requestBody>>,
       threw |-> outcome.kind # "ok",
       rejected |-> outcome.kind = "non2xx",
       response |-> outcome]

\* placeAsterOrder: sign, build the body, one fetch; throws unless 2xx
placeAsterOrder(orderParams, walletConfig, clockNow, outcome) ==
  LET nonce == generateNonce(clockNow)
      paramsForSign ==
        Merge(orderParams,
              [k \in {"leverage"} |->
                 IF "leverage" \in DOMAIN orderParams /\ orderParams["leverage"].t = "number"
                    /\ orderParams["leverage"].n # 0
                 THEN Str(NumberToString(orderParams["leverage"].n))
                 ELSE Undefined])
      signature == generateAsterSignature(paramsForSign, walletConfig, nonce, clockNow)
      defined == {k \in DOMAIN paramsForSign : paramsForSign[k].t # "undefined"}
      requestBody == [params |-> [k \in defined |-> paramsForSign[k]],
                      nonce |-> NumberToString(nonce),
                      user |-> walletConfig.user, signer |-> walletConfig.signer,
                      signature |-> signature, recvWindow |-> RECV_WINDOW,
                      timestamp |-> clockNow]
  IN  [sent |-> <<requestBody>>,
       threw |-> outcome.kind # "ok",
       rejected |-> outcome.kind = "non2xx",
       response |-> outcome]

\* (size_usd / marketPrice).toFixed(8)
QuantityString(sizeUsd, marketPrice) ==
  NumberToString(sizeUsd \div marketPrice) \o <<".", "00000000">>

convertDecisionToAsterOrder(decision, marketPrice) ==
  LET base == [k \in {"symbol", "side", "type", "quantity", "positionSide"} |->
                 CASE k = "symbol" -> Str(<<decision.coin, "USDT">>)
                   [] k = "side" -> Str(<<IF decision.signal = "long" THEN "BUY" ELSE "SELL">>)
                   [] k = "type" -> Str(<<"MARKET">>)
                   [] k = "quantity" -> Str(QuantityString(decision.size_usd, marketPrice))
                   [] OTHER -> Str(<<"BOTH">>)]
  IN  IF decision.leverage > 1
      THEN Merge(base, [k \in {"leverage"} |-> Num(decision.leverage)])
      ELSE base

\* the stop-loss / take-profit order that follows a filled entry
ProtectiveOrder(orderParams, orderType, stopPrice, response) ==
  [k \in {"symbol", "side", "type", "stopPrice", "quantity", "reduceOnly"} |->
     CASE k = "symbol" -> orderParams["symbol"]
       [] k = "side" -> Str(<<IF orderParams["side"] = Str(<<"BUY">>) THEN "SELL" ELSE "BUY">>)
       [] k = "type" -> Str(<<orderType>>)
       [] k = "stopPrice" -> Str(NumberToString(stopPrice))
       [] k = "quantity" -> IF response.executedQty # <<>>
                            THEN Str(response.executedQty) ELSE orderParams["quantity"]
       [] OTHER -> Str(<<"true">>)]

TradeResult(success, calls, sent, threw, rejected, response) ==
  [success |-> success, calls |-> calls, sent |-> sent, threw |-> threw,
   rejected |-> rejected, response |-> response]

\* a trade that reports success although placing the order threw
executeRealTrade_SwallowError(decision, marketPrice, walletConfig, clockNow, outcomes) ==
  LET entry == placeAsterOrder(convertDecisionToAsterOrder(decision, marketPrice),
                               walletConfig, clockNow, outcomes[1])
  IN  TradeResult(TRUE, 1, entry.sent, entry.threw, entry.rejected, entry.response)

\* executeRealTrade: entry order, then stop loss and take profit when the
\* entry is (partially) filled; any throw gives success: false
executeRealTrade(decision, marketPrice, walletConfig, clockNow, outcomes) ==
  LET orderParams == convertDecisionToAsterOrder(decision, marketPrice)
      entry == placeAsterOrder(orderParams, walletConfig, clockNow, outcomes[1])
      filled == entry.response.status \in {"FILLED", "PARTIALLY_FILLED"}
      stop == placeAsterOrder(
                ProtectiveOrder(orderParams, "STOP_MARKET", decision.stop_loss, entry.response),
                walletConfig, clockNow, outcomes[2])
      take == placeAsterOrder(
                ProtectiveOrder(orderParams, "TAKE_PROFIT_MARKET", decision.profit_target,
                                entry.response),
                walletConfig, clockNow, outcomes[3])
      withStop == decision.stop_loss # 0
      withTake == decision.profit_target # 0
  IN  IF entry.threw
      THEN TradeResult(FALSE, 1, entry.sent, TRUE, entry.rejected, entry.response)
      ELSE IF ~filled
      THEN TradeResult(TRUE, 1, entry.sent, FALSE, FALSE, entry.response)
      ELSE IF withStop /\ stop.threw
      THEN TradeResult(FALSE, 2, entry.sent \o stop.sent, TRUE, stop.rejected, entry.response)
      ELSE IF withTake /\ take.threw
      THEN TradeResult(FALSE, IF withStop THEN 3 ELSE 2,
                       entry.sent \o (IF withStop THEN stop.sent ELSE <<>>) \o take.sent,
                       TRUE, take.rejected, entry.response)
      ELSE TradeResult(TRUE,
                       1 + (IF withStop THEN 1 ELSE 0) + (IF withTake THEN 1 ELSE 0),
                       entry.sent \o (IF withStop THEN stop.sent ELSE <<>>)
                                  \o (IF withTake THEN take.sent ELSE <<>>),
                       FALSE, FALSE, entry.response)

\* ------------------------------------------------------- exchange queries
DigitValue(c) == (CHOOSE i \in 1..10 : Digits[i] = c) - 1

\* parseFloat of a string of decimal digits
RECURSIVE parseFloat(_)
parseFloat(chars) ==
  IF Len(chars) = 1 THEN DigitValue(chars[1])
  ELSE parseFloat(SubSeq(chars, 1, Len(chars) - 1)) * 10 + DigitValue(chars[Len(chars)])

\* replies to GET /fapi/v3/balance: the fetch rejects (transport), answers
\* non-2xx, answers 2xx with a body that is no list (malformed), or answers
\* 2xx with the assets and their balance strings
AssetEntry(asset, balance) == [asset |-> asset, balance |-> balance]
QueryFailure(kind) == [kind |-> kind, body |-> <<>>]
BalanceReplies ==
  {QueryFailure("transport"), QueryFailure("non2xx"), QueryFailure("malformed")}
  \cup {[kind |-> "ok", body |-> b] :
          b \in {<<>>,
                 <<AssetEntry("BNB", <<"5">>)>>,
                 <<AssetEntry("USDT", <<"0">>)>>,
                 <<AssetEntry("BNB", <<"5">>), AssetEntry("USDT", <<"9", "5", "0">>)>>}}

HasAsset(body, asset) == \E i \in 1..Len(body) : body[i].asset = asset
FindAsset(body, asset) ==
  body[CHOOSE i \in 1..Len(body) :
         body[i].asset = asset /\ \A j \in 1..(i - 1) : body[j].asset # asset]

QueryResult(threw, value, positions) ==
  [threw |-> threw, value |-> value, positions |-> positions]

\* a balance query that answers 0 when there is no USDT entry
getAsterAccountBalance_ZeroWhenMissing(walletConfig, clockNow, reply) ==
  IF reply.kind # "ok" THEN QueryResult(TRUE, 0, {})
  ELSE IF ~HasAsset(reply.body, "USDT") THEN QueryResult(FALSE, 0, {})
  ELSE QueryResult(FALSE, parseFloat(FindAsset(reply.body, "USDT").balance), {})

\* getAsterAccountBalance: throws on a rejected fetch, a non-2xx reply or a
\* reply without a USDT entry
getAsterAccountBalance(walletConfig, clockNow, reply) ==
  IF reply.kind # "ok" THEN QueryResult(TRUE, 0, {})
  ELSE IF ~HasAsset(reply.body, "USDT") THEN QueryResult(TRUE, 0, {})
  ELSE QueryResult(FALSE, parseFloat(FindAsset(reply.body, "USDT").balance), {})

\* replies to GET /fapi/v3/account: positions with their amounts
PositionEntry(symbol, amt) == [asset |-> symbol, balance |-> amt]
AccountReplies ==
  {QueryFailure("transport"), QueryFailure("non2xx"), QueryFailure("malformed")}
  \cup {[kind |-> "ok", body |-> b] :
          b \in {<<>>,
                 <<PositionEntry("BTCUSDT", <<"0">>)>>,
                 <<PositionEntry("BTCUSDT", <<"4">>)>>,
                 <<PositionEntry("BTCUSDT", <<"4">>), PositionEntry("ETHUSDT", <<"0">>)>>}}

getAsterAccountInfo(walletConfig, clockNow, reply) ==
  IF reply.kind # "ok" THEN [threw |-> TRUE, positions |-> <<>>]
  ELSE [threw |-> FALSE, positions |-> reply.body]

\* getAsterPositions: the positions of the account whose amount is not zero
getAsterPositions(walletConfig, clockNow, reply) ==
  LET accountInfo == getAsterAccountInfo(walletConfig, clockNow, reply)
  IN  IF accountInfo.threw THEN QueryResult(TRUE, 0, {})
      ELSE QueryResult(FALSE, 0,
             {accountInfo.positions[i].asset : i \in
                {j \in 1..Len(accountInfo.positions) :
                   parseFloat(accountInfo.positions[j].balance) # 0}})

\* ------------------------------------------------------ live reconciliation
SyncResult(ag, saved, query) == [agent |-> ag, saved |-> saved, query |-> query]

\* a reconciliation that zeroes the balance when the query fails
syncBalanceFromAster_ZeroOnFailure(ag, saved, walletConfig, initialBalance, clockNow, reply, saveOk) ==
  LET query == getAsterAccountBalance(walletConfig, clockNow, reply)
      zeroed == [ag EXCEPT !.balance = 0, !.pnlAbsolute = 0 - initialBalance, !.pnl = -100]
  IN  IF query.threw THEN SyncResult(zeroed, zeroed, query)
      ELSE SyncResult(ag, saved, query)

\* syncBalanceFromAster: on a failed query nothing is touched
syncBalanceFromAster(ag, saved, walletConfig, initialBalance, clockNow, reply, saveOk) ==
  LET query == getAsterAccountBalance(walletConfig, clockNow, reply)
      realBalance == query.value
      updated == [ag EXCEPT !.balance = realBalance,
                            !.pnlAbsolute = realBalance - initialBalance,
                            !.pnl = ((realBalance - initialBalance) * 100) \div initialBalance]
  IN  IF query.threw THEN SyncResult(ag, saved, query)
      ELSE SyncResult(updated, IF saveOk THEN updated ELSE saved, query)

\* ------------------------------------------------------- live agent: idle
LiveWallet == CHOOSE w \in Wallets : TRUE
LiveMarketPrice == 100

InitLiveAgent ==
  [balance |-> INITIAL_BALANCE, pnl |-> 0, pnlAbsolute |-> 0, activePositions |-> {}]

NoTrade ==
  TradeResult(FALSE, 0, <<>>, FALSE, FALSE, [kind |-> "none", status |-> "", executedQty |-> <<>>])
NoQuery == QueryResult(FALSE, 0, {})
NoReply == QueryFailure("none")

LiveOp(name, signal, trade, reply, query) ==
  [name |-> name, signal |-> signal, success |-> trade.success, threw |-> trade.threw,
   rejected |-> trade.rejected, calls |-> trade.calls, sent |-> Len(trade.sent),
   status |-> trade.response.status, reply |-> reply, query |-> query]

IdleLive ==
  /\ liveAgent = InitLiveAgent
  /\ savedAgent = InitLiveAgent
  /\ placeCalls = 0
  /\ requestsSent = 0
  /\ livePc = "idle"
  /\ liveLast = LiveOp("init", "", NoTrade, NoReply, NoQuery)

\* ------------------------------------------------- single calls: idle
NoCall == [fn |-> "none"]
NoReturn == [done |-> FALSE]

EmptyCache == [data |-> EmptyMap, timestamp |-> 0]
NoFetch ==
  [name |-> "init", reply |-> [kind |-> "none", body |-> <<>>], fetched |-> FALSE,
   threw |-> FALSE, value |-> EmptyMap]
NoTick == [name |-> "init", ticks |-> 0]

\* no call under way, no job queued, no connection and no attempt
NoConnection == [conn |-> 0, promise |-> 0]
IdleAsync ==
  /\ pending = <<>>
  /\ jobs = <<>>
  /\ promises = <<>>
  /\ cached = NoConnection

IdleRest ==
  /\ unitIn = NoCall
  /\ unitOut = NoReturn
  /\ priceCache = EmptyCache
  /\ fetchLast = NoFetch
  /\ cycles = <<>>
  /\ cronLast = NoTick
  /\ IdleAsync

\* ------------------------------------------------------------ paper actions
NoResults == [name |-> "init", results |-> EmptyMap]

InitAgent ==
  [balance |-> INITIAL_BALANCE, pnl |-> 0, pnlAbsolute |-> 0, winRate |-> 50,
   totalTrades |-> 0, activePositions |-> <<>>]

Init ==
  /\ price \in [Symbols -> PriceSet]
  /\ marketData = MarketDataOf(EmptyMap)
  /\ agent = InitAgent
  /\ trades = <<>>
  /\ hasOpenAIKey \in BOOLEAN
  /\ lastOp = NoResults
  /\ IdleSign
  /\ IdleLive
  /\ IdleRest

\* the exchange ticker moves
PriceChange ==
  /\ \E c \in Symbols, p \in PriceSet :
       /\ p # price[c]
       /\ price' = [price EXCEPT ![c] = p]
  /\ lastOp' = [name |-> "priceChange", results |-> EmptyMap]
  /\ UNCHANGED <<marketData, agent, trades, hasOpenAIKey>>
  /\ UNCHANGED <<signVars, liveVars, restVars>>

\* the periodic balance update: fetch the market snapshot, reconcile, save
UpdateAgentBalance ==
  /\ \E fetchOk \in BOOLEAN :
       LET md == getMarketData(fetchOk, price)
       IN  /\ marketData' = md
           /\ agent' = updateAgentBalance(agent, trades, md.prices)
  /\ lastOp' = [name |-> "updateAgentBalance", results |-> EmptyMap]
  /\ UNCHANGED <<price, trades, hasOpenAIKey>>
  /\ UNCHANGED <<signVars, liveVars, restVars>>

TurnStep(md, st) ==
  /\ Len(st.agent.activePositions) <= MaxPositions
  /\ Len(st.trades) <= MaxTrades
  /\ marketData' = md
  /\ agent' = st.agent
  /\ trades' = st.trades
  /\ lastOp' = [name |-> "processAgent", results |-> st.results]
  /\ UNCHANGED <<price, hasOpenAIKey>>
  /\ UNCHANGED <<signVars, liveVars, restVars>>

\* one cycle: fetch the market snapshot, then the agent's turn with the
\* decisions of the language model
ProcessAgentLLM ==
  /\ hasOpenAIKey
  /\ \E fetchOk \in BOOLEAN :
       LET md == getMarketData(fetchOk, price)
       IN  \/ \E reply \in LLMReplies(md) :
                TurnStep(md, ProcessTurn(agent, trades, md, TRUE, TRUE, reply,
                                         [c \in Symbols |-> NoTradeDraw]))
           \/ TurnStep(md, ProcessTurn(agent, trades, md, TRUE, FALSE, EmptyMap,
                                       [c \in Symbols |-> NoTradeDraw]))

\* one cycle: fetch the market snapshot, then the agent's turn with simulated
\* decisions
ProcessAgentSimulated ==
  /\ ~hasOpenAIKey
  /\ \E fetchOk \in BOOLEAN, rnd \in [Symbols -> RandomDraws] :
       LET md == getMarketData(fetchOk, price)
       IN  TurnStep(md, ProcessTurn(agent, trades, md, FALSE, FALSE, EmptyMap, rnd))

Next ==
  \/ PriceChange
  \/ UpdateAgentBalance
  \/ ProcessAgentLLM
  \/ ProcessAgentSimulated

Spec == Init /\ [][Next]_vars

\* ------------------------------------------- signing: the two invocations
InitSign ==
  /\ price = [c \in Symbols |-> 100]
  /\ marketData = MarketDataOf(EmptyMap)
  /\ agent = InitAgent
  /\ trades = <<>>
  /\ hasOpenAIKey = FALSE
  /\ lastOp = NoResults
  /\ now = 1
  /\ sigIn \in [paramsA : CallerParams, paramsB : CallerParams,
                walletA : {CHOOSE w \in Wallets : TRUE}, walletB : Wallets,
                nonceA : {1000}, nonceB : Nonces]
  /\ sigA = NoSignature
  /\ sigB = NoSignature
  /\ IdleLive
  /\ IdleRest

ClockTick ==
  /\ now < MaxClock
  /\ now' = now + 1
  /\ UNCHANGED <<sigIn, sigA, sigB, paperVars, liveVars, restVars>>

SignFirst ==
  /\ ~sigA.done
  /\ sigA' = Invocation(sigIn.paramsA, sigIn.walletA, sigIn.nonceA, now)
  /\ UNCHANGED <<now, sigIn, sigB, paperVars, liveVars, restVars>>

SignSecond ==
  /\ ~sigB.done
  /\ sigB' = Invocation(sigIn.paramsB, sigIn.walletB, sigIn.nonceB, now)
  /\ UNCHANGED <<now, sigIn, sigA, paperVars, liveVars, restVars>>

NextSign ==
  \/ ClockTick
  \/ SignFirst
  \/ SignSecond

SpecSign == InitSign /\ [][NextSign]_vars

\* ------------------------------------------------ live agent: the actions
LiveDecision(signal, leverage, stopLoss, profitTarget) ==
  [coin |-> "BTC", signal |-> signal, size_usd |-> 400, leverage |-> leverage,
   stop_loss |-> stopLoss, profit_target |-> profitTarget]
LiveDecisions ==
  {LiveDecision("long", 10, 0, 0), LiveDecision("long", 10, 95, 0),
   LiveDecision("long", 1, 95, 110), LiveDecision("short", 10, 110, 95),
   LiveDecision("close", 1, 0, 0)}

InitLive ==
  /\ price = [c \in Symbols |-> LiveMarketPrice]
  /\ marketData = MarketDataOf(EmptyMap)
  /\ agent = InitAgent
  /\ trades = <<>>
  /\ hasOpenAIKey = FALSE
  /\ lastOp = NoResults
  /\ IdleSign
  /\ IdleLive
  /\ IdleRest

\* processAgentTrade, live branch: executeRealTrade; only a successful result
\* lets the turn go on to the two synchronisations
LiveExecute ==
  /\ livePc = "idle"
  /\ \E decision \in LiveDecisions, o1 \in EntryOutcomes, o2 \in FollowUpOutcomes,
        o3 \in FollowUpOutcomes :
       \E result \in {executeRealTrade(decision, LiveMarketPrice, LiveWallet, now,
                                       <<o1, o2, o3>>)} :
           /\ requestsSent + Len(result.sent) <= MaxOrders
           /\ placeCalls + result.calls <= MaxOrders
           /\ placeCalls' = placeCalls + result.calls
           /\ requestsSent' = requestsSent + Len(result.sent)
           /\ livePc' = IF result.success THEN "traded" ELSE "idle"
           /\ liveLast' = LiveOp("executeRealTrade", decision.signal, result, NoReply, NoQuery)
  /\ UNCHANGED <<liveAgent, savedAgent, paperVars, signVars, restVars>>

\* processAgentTrade, live branch: syncBalanceFromAster after a successful trade
LiveSyncBalance ==
  /\ livePc = "traded"
  /\ \E reply \in BalanceReplies, saveOk \in BOOLEAN :
       LET r == syncBalanceFromAster(liveAgent, savedAgent, LiveWallet, INITIAL_BALANCE,
                                     now, reply, saveOk)
       IN  /\ liveAgent' = r.agent
           /\ savedAgent' = r.saved
           /\ liveLast' = LiveOp("syncBalanceFromAster", "", NoTrade, reply, r.query)
  /\ livePc' = "synced"
  /\ UNCHANGED <<placeCalls, requestsSent, paperVars, signVars, restVars>>

\* processAgentTrade, live branch: getAsterPositions, then the positions are
\* written to the agent and saved; a throw ends the turn
LiveSyncPositions ==
  /\ livePc = "synced"
  /\ \E reply \in AccountReplies :
       LET q == getAsterPositions(LiveWallet, now, reply)
           synced == [liveAgent EXCEPT !.activePositions = q.positions]
       IN  /\ liveAgent' = IF q.threw THEN liveAgent ELSE synced
           /\ savedAgent' = IF q.threw THEN savedAgent ELSE synced
           /\ liveLast' = LiveOp("getAsterPositions", "", NoTrade, reply, q)
  /\ livePc' = "idle"
  /\ UNCHANGED <<placeCalls, requestsSent, paperVars, signVars, restVars>>

\* updateAllAgentBalances, live branch: the periodic syncBalanceFromAster
LivePeriodicSync ==
  /\ livePc = "idle"
  /\ \E reply \in BalanceReplies, saveOk \in BOOLEAN :
       LET r == syncBalanceFromAster(liveAgent, savedAgent, LiveWallet, INITIAL_BALANCE,
                                     now, reply, saveOk)
       IN  /\ liveAgent' = r.agent
           /\ savedAgent' = r.saved
           /\ liveLast' = LiveOp("syncBalanceFromAster", "", NoTrade, reply, r.query)
  /\ UNCHANGED <<livePc, placeCalls, requestsSent, paperVars, signVars, restVars>>

NextLive ==
  \/ LiveExecute
  \/ LiveSyncBalance
  \/ LiveSyncPositions
  \/ LivePeriodicSync

SpecLive == InitLive /\ [][NextLive]_vars

\* ------------------------------------------------------ decision adapters
\* a JavaScript value is truthy unless it is undefined, null, "", 0
Truthy(v) ==
  \/ v.t = "string" /\ v.s # <<>>
  \/ v.t = "number" /\ v.n # 0

\* a || b
OrElse(a, b) == IF Truthy(a) THEN a ELSE b

\* what the Gemini call gives back: the call throws (network, quota,
\* timeout), the text is empty, the text does not parse, or it parses to
\* null, to a scalar, or to an object; confidence is in percent
GeminiReply(kind, action, symbol, confidence) ==
  [kind |-> kind, action |-> action, symbol |-> symbol, confidence |-> confidence]

GeminiActionValues ==
  {Str(<<"open">>), Str(<<"close">>), Str(<<"none">>), Str(<<"modify">>), Str(<<"buy">>),
   Str(<<>>), Num(1), Null, Undefined}
GeminiSymbolValues == {Str(<<"BTC">>), Num(7), Undefined}
GeminiConfidenceValues == {Num(80), Num(0), Num(150), Str(<<"high">>), Undefined}

GeminiReplies ==
  {GeminiReply(k, Undefined, Undefined, Undefined) :
     k \in {"throws", "noText", "unparseable", "null", "scalar"}}
  \cup {GeminiReply("object", a, sy, cf) :
          a \in GeminiActionValues, sy \in GeminiSymbolValues, cf \in GeminiConfidenceValues}

GeminiDecision(action, symbol, confidence) ==
  [action |-> action, symbol |-> symbol, confidence |-> confidence]

\* generateGeminiTradingDecision: the fields of the parsed reply with their
\* defaults; the catch returns the "none" decision with confidence 0.0
generateGeminiTradingDecision(reply) ==
  IF reply.kind \in {"throws", "noText", "unparseable", "null"}
  THEN GeminiDecision(Str(<<"none">>), Null, Num(0))
  ELSE GeminiDecision(OrElse(reply.action, Str(<<"none">>)),
                      OrElse(reply.symbol, Null),
                      OrElse(reply.confidence, Num(50)))

\* what the OpenAI call gives back: it throws, the content is empty or does
\* not parse, or it parses to an object whose decisions are handed on
OpenAIReply(kind, decisions) == [kind |-> kind, decisions |-> decisions]

OpenAISignalValues == {"long", "close", "wait", "buy", ""}
OpenAIConfidenceValues == {80, 150}

OpenAIReplies ==
  {OpenAIReply(k, EmptyMap) : k \in {"throws", "noText", "unparseable"}}
  \cup {OpenAIReply("object", EmptyMap)}
  \cup {OpenAIReply("object",
          [c \in {"BTC"} |-> DecisionOf("BTC", sg, 100, 400, 10, 95, 110, cf)]) :
          sg \in OpenAISignalValues, cf \in OpenAIConfidenceValues}

\* --------------------------------------------- decision adapters: one call
Returned(value) == [done |-> TRUE, raised |-> FALSE, value |-> value]

InitDecide ==
  /\ price = [c \in Symbols |-> 100]
  /\ marketData = MarketDataOf(EmptyMap)
  /\ agent = InitAgent
  /\ trades = <<>>
  /\ hasOpenAIKey = FALSE
  /\ lastOp = NoResults
  /\ IdleSign
  /\ IdleLive
  /\ unitIn \in {[fn |-> "generateGeminiTradingDecision", reply |-> r] : r \in GeminiReplies}
                \cup {[fn |-> "generateAITradingDecision", reply |-> r] : r \in OpenAIReplies}
  /\ unitOut = NoReturn
  /\ priceCache = EmptyCache
  /\ fetchLast = NoFetch
  /\ cycles = <<>>
  /\ cronLast = NoTick
  /\ IdleAsync

DecideGemini ==
  /\ unitIn.fn = "generateGeminiTradingDecision"
  /\ ~unitOut.done
  /\ unitOut' = Returned(generateGeminiTradingDecision(unitIn.reply))
  /\ UNCHANGED <<unitIn, feedVars, cronVars, asyncVars, paperVars, signVars, liveVars>>

DecideOpenAI ==
  /\ unitIn.fn = "generateAITradingDecision"
  /\ ~unitOut.done
  /\ unitOut' = Returned(generateAITradingDecision(unitIn.reply.kind = "object",
                                                   unitIn.reply.decisions))
  /\ UNCHANGED <<unitIn, feedVars, cronVars, asyncVars, paperVars, signVars, liveVars>>

NextDecide ==
  \/ DecideGemini
  \/ DecideOpenAI

SpecDecide == InitDecide /\ [][NextDecide]_vars

\* ------------------------------------------------------------ trading cron
MaxCycles == 3
MaxTicks == 6

CronStep(name, ticks) == [name |-> name, ticks |-> ticks]

InitCron ==
  /\ price = [c \in Symbols |-> 100]
  /\ marketData = MarketDataOf(EmptyMap)
  /\ agent = InitAgent
  /\ trades = <<>>
  /\ hasOpenAIKey = FALSE
  /\ lastOp = NoResults
  /\ IdleSign
  /\ IdleLive
  /\ IdleRest

\* setInterval fires: the callback starts and awaits fetch, whatever the
\* callbacks of earlier ticks are doing
Tick ==
  /\ cronLast.ticks < MaxTicks
  /\ Len(cycles) < MaxCycles
  /\ cycles' = Append(cycles, "fetch")
  /\ cronLast' = CronStep("tick", cronLast.ticks + 1)
  /\ UNCHANGED <<unitVars, feedVars, asyncVars, paperVars, signVars, liveVars>>

\* fetch resolves: the callback goes on to await response.json()
FetchResolves ==
  /\ \E i \in 1..Len(cycles) :
       /\ cycles[i] = "fetch"
       /\ cycles' = [cycles EXCEPT ![i] = "json"]
  /\ cronLast' = CronStep("fetched", cronLast.ticks)
  /\ UNCHANGED <<unitVars, feedVars, asyncVars, paperVars, signVars, liveVars>>

\* fetch rejects: the catch logs and the callback ends
FetchRejects ==
  /\ \E i \in 1..Len(cycles) :
       /\ cycles[i] = "fetch"
       /\ cycles' = RemoveAt(cycles, i)
  /\ cronLast' = CronStep("failed", cronLast.ticks)
  /\ UNCHANGED <<unitVars, feedVars, asyncVars, paperVars, signVars, liveVars>>

\* response.json() settles: the callback logs the outcome and ends
JsonSettles ==
  /\ \E i \in 1..Len(cycles) :
       /\ cycles[i] = "json"
       /\ cycles' = RemoveAt(cycles, i)
  /\ \E ok \in BOOLEAN :
       cronLast' = CronStep(IF ok THEN "processed" ELSE "failed", cronLast.ticks)
  /\ UNCHANGED <<unitVars, feedVars, asyncVars, paperVars, signVars, liveVars>>

NextCron ==
  \/ Tick
  \/ FetchResolves
  \/ FetchRejects
  \/ JsonSettles

SpecCron == InitCron /\ [][NextCron]_vars

\* ------------------------------------------------------------- price feed
CACHE_DURATION == 5000
FeedClockStep == 2500
MaxFeedSteps == 4

\* a ticker of GET /fapi/v1/ticker/price: the symbol in two tokens (base,
\* quote) and the price as the reply spells it
Ticker(base, quote, tickerPrice) == [base |-> base, quote |-> quote, price |-> tickerPrice]

\* symbol.match(/^([A-Z]+)USDT$/)
IsUpperCaseWord(base) == base \in {"BTC", "ETH", "MATICX"}
CoinMatch(ticker) == ticker.quote = "USDT" /\ IsUpperCaseWord(ticker.base)

\* coin.length
CoinLength(base) ==
  CASE base = "MATICX" -> 6
    [] base = "1INCH" -> 5
    [] OTHER -> 3

FeedReply(kind, body) == [kind |-> kind, body |-> body]

\* the endpoint is unreachable (fetch rejects), the body is no JSON, the JSON
\* is no list, or it is a list of tickers
FeedReplies ==
  {FeedReply(k, <<>>) : k \in {"unreachable", "badJson", "notList"}}
  \cup {FeedReply("list", b) :
          b \in {<<>>,
                 <<Ticker("BTC", "USDT", Str(<<"1", "0", "0">>))>>,
                 <<Ticker("BTC", "USDT", Str(<<"2", "0", "0">>)),
                   Ticker("ETH", "USDT", Str(<<"5", "0">>))>>,
                 <<Ticker("BTC", "USD", Str(<<"1", "0", "0">>)),
                   Ticker("MATICX", "USDT", Str(<<"7">>)),
                   Ticker("1INCH", "USDT", Str(<<"3">>)),
                   Ticker("ETH", "USDT", Undefined)>>}}

\* data.forEach(...): the tickers that pass the tests, later ones overwriting
RECURSIVE PriceMapOf(_, _)
PriceMapOf(tickers, priceMap) ==
  IF tickers = <<>> THEN priceMap
  ELSE LET ticker == Head(tickers)
       IN  IF Truthy(ticker.price) /\ CoinMatch(ticker) /\ CoinLength(ticker.base) <= 5
           THEN PriceMapOf(Tail(tickers),
                  [c \in DOMAIN priceMap \cup {ticker.base} |->
                     IF c = ticker.base THEN parseFloat(ticker.price.s) ELSE priceMap[c]])
           ELSE PriceMapOf(Tail(tickers), priceMap)

FetchResult(cache, reply, fetched, threw, value) ==
  [cache |-> cache,
   last |-> [name |-> "fetchAllPrices", reply |-> reply, fetched |-> fetched,
             threw |-> threw, value |-> value]]

\* fetchAllPrices: the cache while it is fresh; else the endpoint, and on any
\* failure the cached prices if there are any
fetchAllPrices(cache, clockNow, reply) ==
  IF cache.timestamp > 0 /\ clockNow - cache.timestamp < CACHE_DURATION
  THEN FetchResult(cache, reply, FALSE, FALSE, cache.data)
  ELSE IF reply.kind = "list"
  THEN LET priceMap == PriceMapOf(reply.body, EmptyMap)
       IN  FetchResult([data |-> priceMap, timestamp |-> clockNow], reply, TRUE, FALSE, priceMap)
  ELSE IF DOMAIN cache.data # {}
  THEN FetchResult(cache, reply, TRUE, FALSE, cache.data)
  ELSE FetchResult(cache, reply, TRUE, TRUE, EmptyMap)

InitFeed ==
  /\ price = [c \in Symbols |-> 100]
  /\ marketData = MarketDataOf(EmptyMap)
  /\ agent = InitAgent
  /\ trades = <<>>
  /\ hasOpenAIKey = FALSE
  /\ lastOp = NoResults
  /\ IdleSign
  /\ IdleLive
  /\ IdleRest

FeedClockAdvance ==
  /\ now < 1 + MaxFeedSteps * FeedClockStep
  /\ now' = now + FeedClockStep
  /\ UNCHANGED <<sigIn, sigA, sigB, unitVars, feedVars, cronVars, asyncVars, paperVars, liveVars>>

FetchAllPrices ==
  /\ \E reply \in FeedReplies :
       LET r == fetchAllPrices(priceCache, now, reply)
       IN  /\ priceCache' = r.cache
           /\ fetchLast' = r.last
  /\ UNCHANGED <<unitVars, cronVars, asyncVars, paperVars, signVars, liveVars>>

NextFeed ==
  \/ FeedClockAdvance
  \/ FetchAllPrices

SpecFeed == InitFeed /\ [][NextFeed]_vars

\* -------------------------------------------------- exit test: one call
ExitPositions ==
  {[coin |-> "BTC", entry_price |-> 100, profit_target |-> tp, stop_loss |-> sl,
    leverage |-> 10, size_usd |-> 400, signal |-> "long"] :
     sl \in {90, 95}, tp \in {110, 120}}
  \cup {[coin |-> "BTC", entry_price |-> 100, profit_target |-> tp, stop_loss |-> sl,
         leverage |-> 10, size_usd |-> 400, signal |-> "short"] :
          sl \in {105, 110}, tp \in {90, 95}}
ExitPrices == {80, 90, 95, 100, 105, 110, 120, 130}

InitExit ==
  /\ price = [c \in Symbols |-> 100]
  /\ marketData = MarketDataOf(EmptyMap)
  /\ agent = InitAgent
  /\ trades = <<>>
  /\ hasOpenAIKey = FALSE
  /\ lastOp = NoResults
  /\ IdleSign
  /\ IdleLive
  /\ unitIn \in {[fn |-> "generateAgentDecision", position |-> p, currentPrice |-> x] :
                   p \in ExitPositions, x \in ExitPrices}
  /\ unitOut = NoReturn
  /\ priceCache = EmptyCache
  /\ fetchLast = NoFetch
  /\ cycles = <<>>
  /\ cronLast = NoTick
  /\ IdleAsync

\* generateAgentDecision over one open position: the decision for its coin
\* and the reason
CheckExit ==
  /\ unitIn.fn = "generateAgentDecision"
  /\ ~unitOut.done
  /\ LET md == MarketDataOf([c \in {unitIn.position.coin} |-> unitIn.currentPrice])
         decisions == ExitDecisions(<<unitIn.position>>, md, EmptyMap)
     IN  unitOut' = Returned([signal |-> decisions[unitIn.position.coin].signal,
                              reason |-> ExitReason(unitIn.position, unitIn.currentPrice)])
  /\ UNCHANGED <<unitIn, feedVars, cronVars, asyncVars, paperVars, signVars, liveVars>>

NextExit ==
  \/ CheckExit

SpecExit == InitExit /\ [][NextExit]_vars

\* ------------------------------------------------- position enrichment
\* enrichPosition of the agents route: entry price and zero PnL when the
\* snapshot has no price for the coin
enrichPosition(position, marketPrices) ==
  IF ~HasPrice(marketPrices, position.coin)
  THEN [current_price |-> position.entry_price, pnl |-> 0, pnlAbsolute |-> 0]
  ELSE LET currentPrice == marketPrices[position.coin]
       IN  [current_price |-> currentPrice,
            pnl |-> calculatePnL(position.signal, position.entry_price, currentPrice),
            pnlAbsolute |-> PnlAbsoluteOf(position, currentPrice)]

\* positionsWithPnL of the decision request: the snapshot price, or else the
\* price stored with the position
PositionWithPnL(position, md) ==
  LET currentPrice == IF HasPrice(md.prices, position.coin)
                      THEN md.prices[position.coin] ELSE position.current_price
  IN  [current_price |-> currentPrice,
       unrealizedPnL |-> calculatePnL(position.signal, position.entry_price, currentPrice),
       unrealizedPnLAbsolute |-> PnlAbsoluteOf(position, currentPrice)]

\* ------------------------------------------------------ PnL: one position
PnlPositions ==
  {[coin |-> "BTC", entry_price |-> e, current_price |-> cp, profit_target |-> 0,
    stop_loss |-> 0, leverage |-> 10, size_usd |-> n, signal |-> sg] :
     sg \in {"long", "short"}, e \in {100, 200}, cp \in {100, 120}, n \in {400, 650}}
PnlSnapshots ==
  {EmptyMap} \cup {[c \in {"BTC"} |-> x] : x \in {90, 100, 110, 150}}

InitPnl ==
  /\ price = [c \in Symbols |-> 100]
  /\ marketData = MarketDataOf(EmptyMap)
  /\ agent = InitAgent
  /\ trades = <<>>
  /\ hasOpenAIKey = FALSE
  /\ lastOp = NoResults
  /\ IdleSign
  /\ IdleLive
  /\ unitIn \in {[fn |-> "calculatePnL", position |-> p, prices |-> m] :
                   p \in PnlPositions, m \in PnlSnapshots}
  /\ unitOut = NoReturn
  /\ priceCache = EmptyCache
  /\ fetchLast = NoFetch
  /\ cycles = <<>>
  /\ cronLast = NoTick
  /\ IdleAsync

\* the PnL of one open position as each place computes it
ComputePnl ==
  /\ unitIn.fn = "calculatePnL"
  /\ ~unitOut.done
  /\ LET position == unitIn.position
         prices == unitIn.prices
     IN  unitOut' = Returned(
           [percent |-> IF HasPrice(prices, position.coin)
                        THEN calculatePnL(position.signal, position.entry_price,
                                          prices[position.coin])
                        ELSE 0,
            unrealized |-> calculateUnrealizedPnL(<<position>>, prices),
            route |-> enrichPosition(position, prices),
            request |-> PositionWithPnL(position, MarketDataOf(prices))])
  /\ UNCHANGED <<unitIn, feedVars, cronVars, asyncVars, paperVars, signVars, liveVars>>

NextPnl ==
  \/ ComputePnl

SpecPnl == InitPnl /\ [][NextPnl]_vars

\* ------------------------------------------ reconciliation: two runs
MaxStoredTrades == 3

ClosedPosition(signal) ==
  [coin |-> "BTC", entry_price |-> 100, profit_target |-> 0, stop_loss |-> 0,
   leverage |-> 10, size_usd |-> 400, signal |-> signal]

\* the trades an agent's collection can hold: entries, and exits of a long
\* closed at 200 (won), a short closed at 200 (lost), a long closed at 100
StoredTradeKinds ==
  {EntryTrade("BTC"), ExitTrade(ClosedPosition("long"), 200),
   ExitTrade(ClosedPosition("short"), 200), ExitTrade(ClosedPosition("long"), 100)}

StoredTrades ==
  UNION {[1..n -> StoredTradeKinds] : n \in 0..MaxStoredTrades}

OpenPositionSets == {<<>>, <<ClosedPosition("long")>>}
ReconcilePrices == {EmptyMap} \cup {[c \in {"BTC"} |-> x] : x \in {100, 200}}

InitReconcile ==
  /\ price = [c \in Symbols |-> 100]
  /\ marketData = MarketDataOf(EmptyMap)
  /\ agent = InitAgent
  /\ trades = <<>>
  /\ hasOpenAIKey = FALSE
  /\ lastOp = NoResults
  /\ IdleSign
  /\ IdleLive
  /\ unitIn \in {[fn |-> "updateAgentBalance",
                  agent |-> [InitAgent EXCEPT !.activePositions = ps],
                  trades |-> trs, prices |-> m] :
                   ps \in OpenPositionSets, trs \in StoredTrades, m \in ReconcilePrices}
  /\ unitOut = NoReturn
  /\ priceCache = EmptyCache
  /\ fetchLast = NoFetch
  /\ cycles = <<>>
  /\ cronLast = NoTick
  /\ IdleAsync

\* updateAgentBalance(agent, prices) on the stored agent
Reconcile ==
  /\ unitIn.fn = "updateAgentBalance"
  /\ ~unitOut.done
  /\ unitOut' = Returned([runs |-> 1, before |-> unitIn.agent,
                          agent |-> updateAgentBalance(unitIn.agent, unitIn.trades,
                                                       unitIn.prices)])
  /\ UNCHANGED <<unitIn, feedVars, cronVars, asyncVars, paperVars, signVars, liveVars>>

\* updateAgentBalance(agent, prices) once more, nothing else having changed
ReconcileAgain ==
  /\ unitIn.fn = "updateAgentBalance"
  /\ unitOut.done
  /\ unitOut.value.runs = 1
  /\ unitOut' = Returned([runs |-> 2, before |-> unitOut.value.agent,
                          agent |-> updateAgentBalance(unitOut.value.agent, unitIn.trades,
                                                       unitIn.prices)])
  /\ UNCHANGED <<unitIn, feedVars, cronVars, asyncVars, paperVars, signVars, liveVars>>

NextReconcile ==
  \/ Reconcile
  \/ ReconcileAgain

SpecReconcile == InitReconcile /\ [][NextReconcile]_vars

\* ------------------------------------------------------ wallet resolution
\* process.env: a variable that is not set reads as the empty string
AgentKeyName(name) == <<"AGENT_", name, "_PRIVATE_KEY">>
EnvGet(env, key) == IF key \in DOMAIN env THEN env[key] ELSE ""

\* name.toUpperCase()
ToUpperCase(name) ==
  CASE name = "alpha" -> "ALPHA"
    [] name = "beta" -> "BETA"
    [] OTHER -> name

\* null, or the wallet configuration of the agent
NoWalletConfig == [found |-> FALSE, user |-> "", signer |-> "", privateKey |-> ""]
WalletConfig(user, signer, privateKey) ==
  [found |-> TRUE, user |-> user, signer |-> signer, privateKey |-> privateKey]

\* getAgentWalletConfig: null for a paper agent; the agent's own wallet when
\* both addresses and its key are there; else the shared wallet when it is
\* complete; else null
getAgentWalletConfig(ag, env) ==
  LET upperKey == EnvGet(env, AgentKeyName(ToUpperCase(ag.name)))
      privateKey == IF upperKey # "" THEN upperKey ELSE EnvGet(env, AgentKeyName(ag.name))
      sharedUser == EnvGet(env, <<"SHARED_ASTER_USER">>)
      sharedSigner == EnvGet(env, <<"SHARED_ASTER_SIGNER">>)
      sharedPrivateKey == EnvGet(env, <<"SHARED_ASTER_PRIVATE_KEY">>)
  IN  IF ag.isPaperTrading # "false" THEN NoWalletConfig
      ELSE IF ag.asterUserAddress # "" /\ ag.asterSignerAddress # "" /\ privateKey # ""
      THEN WalletConfig(ag.asterUserAddress, ag.asterSignerAddress, privateKey)
      ELSE IF sharedUser # "" /\ sharedSigner # "" /\ sharedPrivateKey # ""
      THEN WalletConfig(sharedUser, sharedSigner, sharedPrivateKey)
      ELSE NoWalletConfig

\* processAgentTrade: the live branch when a wallet was found, else the paper
\* branch
processAgentTrade(ag, env, decision, marketPrice, clockNow, outcomes) ==
  LET walletConfig == getAgentWalletConfig(ag, env)
      real == executeRealTrade(decision, marketPrice,
                               [user |-> walletConfig.user, signer |-> walletConfig.signer,
                                privateKey |-> walletConfig.privateKey],
                               clockNow, outcomes)
      paper == executeTrade(ag, decision, marketPrice)
  IN  IF walletConfig.found
      THEN [mode |-> "live", account |-> walletConfig.user, signer |-> walletConfig.signer,
            success |-> real.success, threw |-> real.threw, sent |-> Len(real.sent)]
      ELSE [mode |-> "paper", account |-> "", signer |-> "",
            success |-> paper.success, threw |-> FALSE, sent |-> 0]

\* ------------------------------------------- wallet resolution: two agents
WalletAgentNames == {"alpha", "beta"}
WalletAgent(name, isPaperTrading, user, signer) ==
  [name |-> name, isPaperTrading |-> isPaperTrading,
   asterUserAddress |-> user, asterSignerAddress |-> signer]
WalletAgents(name, user, signer) ==
  {WalletAgent(name, p, u, s) :
     p \in {"true", "false", "undefined"}, u \in {"", user}, s \in {"", signer}}

EnvNames ==
  {AgentKeyName("ALPHA"), AgentKeyName("BETA"), <<"SHARED_ASTER_USER">>,
   <<"SHARED_ASTER_SIGNER">>, <<"SHARED_ASTER_PRIVATE_KEY">>}
EnvValue(key) ==
  CASE key = AgentKeyName("ALPHA") -> "kA"
    [] key = AgentKeyName("BETA") -> "kB"
    [] key = <<"SHARED_ASTER_USER">> -> "0xU0"
    [] key = <<"SHARED_ASTER_SIGNER">> -> "0xS0"
    [] OTHER -> "k0"
Environments == {[key \in set |-> EnvValue(key)] : set \in SUBSET EnvNames}

WalletDecision == [coin |-> "BTC", signal |-> "long", size_usd |-> 400, leverage |-> 1,
                   stop_loss |-> 0, profit_target |-> 0]

InitWallet ==
  /\ price = [c \in Symbols |-> 100]
  /\ marketData = MarketDataOf(EmptyMap)
  /\ agent = InitAgent
  /\ trades = <<>>
  /\ hasOpenAIKey = FALSE
  /\ lastOp = NoResults
  /\ IdleSign
  /\ IdleLive
  /\ unitIn \in {[fn |-> "processAgentTrade",
                  agents |-> [n \in WalletAgentNames |-> IF n = "alpha" THEN a ELSE b],
                  env |-> env] :
                   a \in WalletAgents("alpha", "0xU1", "0xS1"),
                   b \in WalletAgents("beta", "0xU2", "0xS2"),
                   env \in Environments}
  /\ unitOut = NoReturn
  /\ priceCache = EmptyCache
  /\ fetchLast = NoFetch
  /\ cycles = <<>>
  /\ cronLast = NoTick
  /\ IdleAsync

\* the turns processed so far: agent name -> what processAgentTrade did
TurnsDone == IF unitOut.done THEN unitOut.value ELSE EmptyMap

\* processAgentTrade for one of the two agents; the exchange fills the order
ProcessAgentTrade ==
  /\ unitIn.fn = "processAgentTrade"
  /\ \E n \in WalletAgentNames \ DOMAIN TurnsDone :
       \E r \in {processAgentTrade(unitIn.agents[n], unitIn.env, WalletDecision, 100, now,
                                   <<OrderOk("FILLED"), OrderOk("NEW"), OrderOk("NEW")>>)} :
          unitOut' = Returned([m \in DOMAIN TurnsDone \cup {n} |->
                                 IF m = n THEN r ELSE TurnsDone[m]])
  /\ UNCHANGED <<unitIn, feedVars, cronVars, asyncVars, paperVars, signVars, liveVars>>

NextWallet == ProcessAgentTrade

SpecWallet == InitWallet /\ [][NextWallet]_vars

\* ----------------------------------------------- one decision, both modes
TradeDecisions ==
  {[coin |-> "BTC", signal |-> s, size_usd |-> sz, leverage |-> l,
    stop_loss |-> sl, profit_target |-> 0] :
     s \in Signals, sz \in {0, 400}, l \in {1, 10}, sl \in {0, 95}}

InitTrade ==
  /\ price = [c \in Symbols |-> 100]
  /\ marketData = MarketDataOf(EmptyMap)
  /\ agent = InitAgent
  /\ trades = <<>>
  /\ hasOpenAIKey = FALSE
  /\ lastOp = NoResults
  /\ IdleSign
  /\ IdleLive
  /\ unitIn \in {[fn |-> "trade", decision |-> d, entry |-> o1, followUp |-> o2] :
                   d \in TradeDecisions, o1 \in EntryOutcomes, o2 \in FollowUpOutcomes}
  /\ unitOut = NoReturn
  /\ priceCache = EmptyCache
  /\ fetchLast = NoFetch
  /\ cycles = <<>>
  /\ cronLast = NoTick
  /\ IdleAsync

\* executeTrade(agent, decision, marketPrice), the paper trade
ExecuteTrade ==
  /\ unitIn.fn = "trade"
  /\ ~unitOut.done
  /\ \E r \in {executeTrade(agent, unitIn.decision, LiveMarketPrice)} :
       unitOut' = Returned([mode |-> "paper", success |-> r.success,
                            opened |-> r.hasNewPosition, sent |-> <<>>])
  /\ UNCHANGED <<unitIn, feedVars, cronVars, asyncVars, paperVars, signVars, liveVars>>

\* executeRealTrade(decision, marketPrice, walletConfig), the live trade
ExecuteRealTrade ==
  /\ unitIn.fn = "trade"
  /\ ~unitOut.done
  /\ \E r \in {executeRealTrade(unitIn.decision, LiveMarketPrice, LiveWallet, now,
                                <<unitIn.entry, unitIn.followUp, unitIn.followUp>>)} :
       unitOut' = Returned([mode |-> "live", success |-> r.success,
                            opened |-> r.response.status \in {"FILLED", "PARTIALLY_FILLED"},
                            sent |-> [i \in 1..Len(r.sent) |-> r.sent[i].params]])
  /\ UNCHANGED <<unitIn, feedVars, cronVars, asyncVars, paperVars, signVars, liveVars>>

NextTrade ==
  \/ ExecuteTrade
  \/ ExecuteRealTrade

SpecTrade == InitTrade /\ [][NextTrade]_vars

\* ------------------------------------------- one turn: the external calls
MaxTurns == 2

NoDecision == GeminiDecision(Undefined, Undefined, Undefined)
TurnOf(ag, awaiting, prices, decision, order) ==
  [agent |-> ag, awaiting |-> awaiting, prices |-> prices, decision |-> decision,
   order |-> order]

TurnReplies ==
  {GeminiReply("throws", Undefined, Undefined, Undefined),
   GeminiReply("unparseable", Undefined, Undefined, Undefined),
   GeminiReply("object", Str(<<"open">>), Str(<<"BTC">>), Num(80)),
   GeminiReply("object", Str(<<"close">>), Str(<<"BTC">>), Num(80)),
   GeminiReply("object", Str(<<"none">>), Undefined, Num(0))}

InitTurn ==
  /\ price = [c \in Symbols |-> 100]
  /\ marketData = MarketDataOf(EmptyMap)
  /\ agent = InitAgent
  /\ trades = <<>>
  /\ hasOpenAIKey = FALSE
  /\ lastOp = NoResults
  /\ IdleSign
  /\ IdleLive
  /\ IdleRest

TurnUnderWay == pending # <<>> /\ pending[Len(pending)].awaiting # "nothing"

\* the next agent's turn starts: fetchAllPrices awaits fetch(ticker url)
StartTurn ==
  /\ ~TurnUnderWay
  /\ Len(pending) < MaxTurns
  /\ pending' = Append(pending, TurnOf(Len(pending) + 1, "marketData", "none", NoDecision,
                                       "none"))
  /\ UNCHANGED <<jobs, promises, cached, unitVars, feedVars, cronVars, paperVars, signVars,
                 liveVars>>

\* the ticker fetch settles: with prices, or getMarketData catches the
\* failure; the turn goes on to await model.generateContent(...)
MarketDataSettles ==
  /\ TurnUnderWay
  /\ pending[Len(pending)].awaiting = "marketData"
  /\ \E ok \in BOOLEAN :
       pending' = [pending EXCEPT ![Len(pending)].awaiting = "decision",
                                  ![Len(pending)].prices = IF ok THEN "ok" ELSE "failed"]
  /\ UNCHANGED <<jobs, promises, cached, unitVars, feedVars, cronVars, paperVars, signVars,
                 liveVars>>

\* generateContent settles: generateGeminiTradingDecision returns the parsed
\* decision, or its catch returns the "none" decision; an open or a close
\* goes on to await fetch(order url)
DecisionSettles ==
  /\ TurnUnderWay
  /\ pending[Len(pending)].awaiting = "decision"
  /\ \E reply \in TurnReplies :
       LET decision == generateGeminiTradingDecision(reply)
           trades_ == decision.action \in {Str(<<"open">>), Str(<<"close">>)}
       IN  pending' = [pending EXCEPT
                         ![Len(pending)].awaiting = IF trades_ THEN "exchange" ELSE "nothing",
                         ![Len(pending)].decision = decision]
  /\ UNCHANGED <<jobs, promises, cached, unitVars, feedVars, cronVars, paperVars, signVars,
                 liveVars>>

\* the order fetch settles: placeAsterOrder returns or throws, and the turn
\* ends
ExchangeSettles ==
  /\ TurnUnderWay
  /\ pending[Len(pending)].awaiting = "exchange"
  /\ \E outcome \in {Transport, Non2xx, OrderOk("FILLED")} :
       pending' = [pending EXCEPT
                     ![Len(pending)].awaiting = "nothing",
                     ![Len(pending)].order = IF outcome.kind = "ok" THEN "ok" ELSE "failed"]
  /\ UNCHANGED <<jobs, promises, cached, unitVars, feedVars, cronVars, paperVars, signVars,
                 liveVars>>

NextTurn ==
  \/ StartTurn
  \/ MarketDataSettles
  \/ DecisionSettles
  \/ ExchangeSettles

\* the worker takes its own steps; when a remote side answers is up to the
\* remote side
SpecTurn == InitTurn /\ [][NextTurn]_vars /\ WF_vars(StartTurn)

\* ------------------------------------- signed requests, statement by statement
MaxRequests == 2

\* placeAsterOrder: the parameters that are signed (leverage as a string)
ParamsForSign(orderParams) ==
  Merge(orderParams,
        [k \in {"leverage"} |->
           IF "leverage" \in DOMAIN orderParams /\ orderParams["leverage"].t = "number"
              /\ orderParams["leverage"].n # 0
           THEN Str(NumberToString(orderParams["leverage"].n))
           ELSE Undefined])

\* getAsterAccountBalance: const params = { recvWindow, timestamp }
QueryParams(clockNow) ==
  [k \in {"recvWindow", "timestamp"} |->
     IF k = "recvWindow" THEN Num(RECV_WINDOW) ELSE Num(clockNow)]

RequestOrderParams ==
  convertDecisionToAsterOrder(LiveDecision("long", 10, 0, 0), LiveMarketPrice)

\* what goes to the exchange: the parameters with recvWindow and timestamp,
\* the nonce, the two addresses and the signature
RequestOf(params, recvWindow, timestamp, nonce, walletConfig, signature) ==
  [params |-> params, recvWindow |-> recvWindow, timestamp |-> timestamp,
   nonce |-> NumberToString(nonce), user |-> walletConfig.user,
   signer |-> walletConfig.signer, signature |-> signature]
NoRequest ==
  RequestOf(EmptyMap, 0, 0, 0, [user |-> "", signer |-> ""], NoSignature.signature)

\* a call of placeAsterOrder ("order") or getAsterAccountBalance ("balance")
\* after its first statement, const nonce = generateNonce()
CallOf(fn, walletConfig, clockNow) ==
  [fn |-> fn, walletConfig |-> walletConfig, pc |-> IF fn = "order" THEN "sign" ELSE "params",
   nonce |-> generateNonce(clockNow),
   params |-> IF fn = "order" THEN ParamsForSign(RequestOrderParams) ELSE EmptyMap,
   jsonStr |-> <<>>, signature |-> NoSignature.signature, request |-> NoRequest]

\* getAsterAccountBalance: the params object reads the clock
WithQueryParams(call, clockNow) ==
  [call EXCEPT !.pc = "sign", !.params = QueryParams(clockNow)]

\* generateAsterSignature(params, walletConfig, nonce): it reads the clock
\* for the timestamp it signs
WithSignature(call, clockNow) ==
  [call EXCEPT !.pc = "body",
               !.jsonStr = SignedJson(call.params, clockNow),
               !.signature = generateAsterSignature(call.params, call.walletConfig,
                                                    call.nonce, clockNow)]

\* the request: placeAsterOrder reads the clock again for the body,
\* getAsterAccountBalance sends the timestamp of its params object
WithRequest(call, clockNow) ==
  LET defined == {k \in DOMAIN call.params : call.params[k].t # "undefined"}
  IN  [call EXCEPT
         !.pc = "sent",
         !.request =
           IF call.fn = "order"
           THEN RequestOf([k \in defined |-> call.params[k]], RECV_WINDOW, clockNow,
                          call.nonce, call.walletConfig, call.signature)
           ELSE RequestOf(EmptyMap, call.params["recvWindow"].n, call.params["timestamp"].n,
                          call.nonce, call.walletConfig, call.signature)]

InitRequest ==
  /\ price = [c \in Symbols |-> 100]
  /\ marketData = MarketDataOf(EmptyMap)
  /\ agent = InitAgent
  /\ trades = <<>>
  /\ hasOpenAIKey = FALSE
  /\ lastOp = NoResults
  /\ IdleSign
  /\ IdleLive
  /\ IdleRest

\* Date.now() moves on
RequestClockTick ==
  /\ now < MaxClock
  /\ now' = now + 1
  /\ UNCHANGED <<sigIn, sigA, sigB, paperVars, liveVars, restVars>>

\* an agent's pipeline calls placeAsterOrder or getAsterAccountBalance
StartRequest ==
  /\ Len(pending) < MaxRequests
  /\ \E fn \in {"order", "balance"}, walletConfig \in Wallets :
       pending' = Append(pending, CallOf(fn, walletConfig, now))
  /\ UNCHANGED <<jobs, promises, cached, unitVars, feedVars, cronVars, paperVars, signVars,
                 liveVars>>

BuildQueryParams ==
  /\ \E i \in 1..Len(pending) :
       /\ pending[i].pc = "params"
       /\ pending' = [pending EXCEPT ![i] = WithQueryParams(pending[i], now)]
  /\ UNCHANGED <<jobs, promises, cached, unitVars, feedVars, cronVars, paperVars, signVars,
                 liveVars>>

SignRequest ==
  /\ \E i \in 1..Len(pending) :
       /\ pending[i].pc = "sign"
       /\ pending' = [pending EXCEPT ![i] = WithSignature(pending[i], now)]
  /\ UNCHANGED <<jobs, promises, cached, unitVars, feedVars, cronVars, paperVars, signVars,
                 liveVars>>

SubmitRequest ==
  /\ \E i \in 1..Len(pending) :
       /\ pending[i].pc = "body"
       /\ pending' = [pending EXCEPT ![i] = WithRequest(pending[i], now)]
  /\ UNCHANGED <<jobs, promises, cached, unitVars, feedVars, cronVars, paperVars, signVars,
                 liveVars>>

NextRequest ==
  \/ RequestClockTick
  \/ StartRequest
  \/ BuildQueryParams
  \/ SignRequest
  \/ SubmitRequest

SpecRequest == InitRequest /\ [][NextRequest]_vars

\* ------------------------------------------- price feed: calls under way
MaxFetches == 2

RaceReplies ==
  {FeedReply("unreachable", <<>>),
   FeedReply("list", <<Ticker("BTC", "USDT", Str(<<"1", "0", "0">>))>>),
   FeedReply("list", <<Ticker("BTC", "USDT", Str(<<"2", "0", "0">>))>>)}

\* fetchAllPrices after its awaits: the cache is written with the call's own
\* reading of the clock, taken before the fetch; the catch reads the cache as
\* it is by then
ResumeFetchAllPrices(cache, startedAt, reply) ==
  IF reply.kind = "list"
  THEN LET priceMap == PriceMapOf(reply.body, EmptyMap)
       IN  FetchResult([data |-> priceMap, timestamp |-> startedAt], reply, TRUE, FALSE,
                       priceMap)
  ELSE IF DOMAIN cache.data # {}
  THEN FetchResult(cache, reply, TRUE, FALSE, cache.data)
  ELSE FetchResult(cache, reply, TRUE, TRUE, EmptyMap)

InitFeedRace ==
  /\ price = [c \in Symbols |-> 100]
  /\ marketData = MarketDataOf(EmptyMap)
  /\ agent = InitAgent
  /\ trades = <<>>
  /\ hasOpenAIKey = FALSE
  /\ lastOp = NoResults
  /\ IdleSign
  /\ IdleLive
  /\ IdleRest

\* a caller enters fetchAllPrices: a fresh cache is returned at once, else
\* the call awaits the fetch
BeginFetch ==
  /\ Len(pending) < MaxFetches
  /\ IF priceCache.timestamp > 0 /\ now - priceCache.timestamp < CACHE_DURATION
     THEN /\ fetchLast' = FetchResult(priceCache, NoFetch.reply, FALSE, FALSE,
                                      priceCache.data).last
          /\ UNCHANGED pending
     ELSE /\ pending' = Append(pending, [fn |-> "fetchAllPrices", startedAt |-> now])
          /\ UNCHANGED fetchLast
  /\ UNCHANGED <<priceCache, jobs, promises, cached, unitVars, cronVars, paperVars, signVars,
                 liveVars>>

\* the fetch of one of the calls settles: the calls settle in any order
CompleteFetch ==
  /\ \E i \in 1..Len(pending), reply \in RaceReplies :
       LET r == ResumeFetchAllPrices(priceCache, pending[i].startedAt, reply)
       IN  /\ priceCache' = r.cache
           /\ fetchLast' = r.last
           /\ pending' = RemoveAt(pending, i)
  /\ UNCHANGED <<jobs, promises, cached, unitVars, cronVars, paperVars, signVars, liveVars>>

NextFeedRace ==
  \/ FeedClockAdvance
  \/ BeginFetch
  \/ CompleteFetch

SpecFeedRace == InitFeedRace /\ [][NextFeedRace]_vars

\* --------------------------------------------------------------- connectDB
MaxCallers == 5

\* a promise of mongoose.connect(...).then(...): pending, fulfilled or
\* rejected, with the callers that await it, in the order they began to
NewPromise == [state |-> "pending", reactions |-> <<>>]

\* the connection an attempt gives is named by the number of the attempt
ConnectionOf(promise) == promise

CallerOf(pc, promise, conn) == [fn |-> "connectDB", pc |-> pc, promise |-> promise, conn |-> conn]

ConnectStep(cache, proms, caller, resumeNow) ==
  [cached |-> cache, promises |-> proms, caller |-> caller, resumeNow |-> resumeNow]

\* a connectDB that starts an attempt of its own whenever there is no
\* connection
connectDB_NoSharedPromise(cache, proms, id) ==
  LET started == Append(proms, NewPromise)
      promise == Len(started)
  IN  IF cache.conn # 0
      THEN ConnectStep(cache, proms, CallerOf("returned", 0, cache.conn), FALSE)
      ELSE ConnectStep([cache EXCEPT !.promise = promise],
                       [started EXCEPT ![promise].reactions = Append(@, id)],
                       CallerOf("awaiting", promise, 0), FALSE)

\* connectDB up to its await: the cached connection if there is one; else
\* the cached promise, started here if there is none, is awaited
connectDB(cache, proms, id) ==
  LET starts == cache.promise = 0
      started == IF starts THEN Append(proms, NewPromise) ELSE proms
      promise == IF starts THEN Len(started) ELSE cache.promise
  IN  IF cache.conn # 0
      THEN ConnectStep(cache, proms, CallerOf("returned", 0, cache.conn), FALSE)
      ELSE IF started[promise].state = "pending"
      THEN ConnectStep([cache EXCEPT !.promise = promise],
                       [started EXCEPT ![promise].reactions = Append(@, id)],
                       CallerOf("awaiting", promise, 0), FALSE)
      ELSE ConnectStep([cache EXCEPT !.promise = promise], started,
                       CallerOf("awaiting", promise, 0), TRUE)

\* connectDB after its await: the connection is cached and returned, or the
\* catch clears the cached promise and throws
ResumeConnectDB(cache, proms, caller) ==
  IF proms[caller.promise].state = "fulfilled"
  THEN LET stored == [cache EXCEPT !.conn = ConnectionOf(caller.promise)]
       IN  ConnectStep(stored, proms, CallerOf("returned", caller.promise, stored.conn), FALSE)
  ELSE ConnectStep([cache EXCEPT !.promise = 0], proms,
                   CallerOf("threw", caller.promise, 0), FALSE)

CallJob(id) == [kind |-> "call", caller |-> id]
ResumeJob(id) == [kind |-> "resume", caller |-> id]

InitConnect ==
  /\ price = [c \in Symbols |-> 100]
  /\ marketData = MarketDataOf(EmptyMap)
  /\ agent = InitAgent
  /\ trades = <<>>
  /\ hasOpenAIKey = FALSE
  /\ lastOp = NoResults
  /\ IdleSign
  /\ IdleLive
  /\ IdleRest

\* a request handler calls connectDB: it runs from the event loop, where no
\* continuation is waiting to run
CallConnectDB ==
  /\ jobs = <<>>
  /\ Len(pending) < MaxCallers
  /\ \E r \in {connectDB(cached, promises, Len(pending) + 1)} :
       /\ cached' = r.cached
       /\ promises' = r.promises
       /\ pending' = Append(pending, r.caller)
       /\ jobs' = IF r.resumeNow THEN <<ResumeJob(Len(pending) + 1)>> ELSE <<>>
  /\ UNCHANGED <<unitVars, feedVars, cronVars, paperVars, signVars, liveVars>>

\* the attempt under way settles: the continuations of the callers that
\* await it are queued in the order the callers began to wait
SettleConnect ==
  /\ jobs = <<>>
  /\ \E p \in 1..Len(promises), ok \in BOOLEAN :
       /\ promises[p].state = "pending"
       /\ promises' = [promises EXCEPT ![p] = [state |-> IF ok THEN "fulfilled" ELSE "rejected",
                                               reactions |-> <<>>]]
       /\ jobs' = [k \in 1..Len(promises[p].reactions) |-> ResumeJob(promises[p].reactions[k])]
  /\ UNCHANGED <<pending, cached, unitVars, feedVars, cronVars, paperVars, signVars, liveVars>>

\* the oldest continuation runs: a caller goes on after its await, and one
\* whose connectDB threw may call connectDB again from its catch; or such a
\* repeated call runs
RunJob ==
  /\ jobs # <<>>
  /\ LET job == Head(jobs)
     IN  IF job.kind = "resume"
         THEN \E r \in {ResumeConnectDB(cached, promises, pending[job.caller])} :
                /\ cached' = r.cached
                /\ promises' = r.promises
                /\ \E again \in BOOLEAN :
                     IF again /\ r.caller.pc = "threw" /\ Len(pending) < MaxCallers
                     THEN /\ pending' = Append([pending EXCEPT ![job.caller] = r.caller],
                                               CallerOf("called", 0, 0))
                          /\ jobs' = Append(Tail(jobs), CallJob(Len(pending) + 1))
                     ELSE /\ pending' = [pending EXCEPT ![job.caller] = r.caller]
                          /\ jobs' = Tail(jobs)
         ELSE \E r \in {connectDB(cached, promises, job.caller)} :
                /\ cached' = r.cached
                /\ promises' = r.promises
                /\ pending' = [pending EXCEPT ![job.caller] = r.caller]
                /\ jobs' = IF r.resumeNow THEN Append(Tail(jobs), ResumeJob(job.caller))
                           ELSE Tail(jobs)
  /\ UNCHANGED <<unitVars, feedVars, cronVars, paperVars, signVars, liveVars>>

NextConnect ==
  \/ CallConnectDB
  \/ SettleConnect
  \/ RunJob

SpecConnect == InitConnect /\ [][NextConnect]_vars

\* ================================================================ claims
\* sums written out for the claims, independent of the balance calculator
RECURSIVE SumOfExitPnl(_)
SumOfExitPnl(trs) ==
  IF trs = <<>> THEN 0
  ELSE SumOfExitPnl(Tail(trs))
       + (IF Head(trs).tradeType = "exit" THEN Head(trs).pnlAbsolute ELSE 0)

OpenPnlAt(p, prices) ==
  IF p.coin \notin DOMAIN prices \/ prices[p.coin] = 0 THEN 0
  ELSE IF p.signal = "long"
       THEN ((prices[p.coin] - p.entry_price) * p.size_usd) \div p.entry_price
       ELSE ((p.entry_price - prices[p.coin]) * p.size_usd) \div p.entry_price

RECURSIVE SumOfOpenPnl(_, _)
SumOfOpenPnl(ps, prices) ==
  IF ps = <<>> THEN 0
  ELSE OpenPnlAt(Head(ps), prices) + SumOfOpenPnl(Tail(ps), prices)

Reconciled == lastOp.name \in {"updateAgentBalance", "processAgent"}

C2_PositionUniqueness ==
  /\ \A i, j \in 1..Len(agent.activePositions) :
       i # j => agent.activePositions[i].coin # agent.activePositions[j].coin
  /\ \A c \in DOMAIN lastOp.results :
       LET r == lastOp.results[c]
       IN  (r.signal \in {"long", "short"} /\ r.hadPosition)
             => (~r.success /\ ~r.created)

\* C3: for every committed open, the sum of size_usd over the open positions,
\* the new one included, is at most 70% of the agent's balance.
C3_ExposureCeiling ==
  \A c \in DOMAIN lastOp.results :
    LET r == lastOp.results[c]
    IN  r.created => r.exposure * 100 <= ExposureLimitPct * r.balance

\* C4: a close for a symbol on which the agent has no open position reports
\* no success and appends no exit trade.
C4_CloseOnce ==
  \A c \in DOMAIN lastOp.results :
    LET r == lastOp.results[c]
    IN  (r.signal = "close" /\ ~r.hadPosition)
          => (~r.success /\ ~r.exitAppended)

SameSigningInputs ==
  /\ sigIn.paramsA = sigIn.paramsB
  /\ sigIn.nonceA = sigIn.nonceB
  /\ sigIn.walletA = sigIn.walletB

DifferInExactlyOneKey(a, b) ==
  /\ DOMAIN a = DOMAIN b
  /\ Cardinality({k \in DOMAIN a : a[k] # b[k]}) = 1

\* C5: two invocations of generateAsterSignature with identical parameters,
\* nonce and wallet keys return the identical signature, whenever they run.
C5_SigningDeterminism ==
  (sigA.done /\ sigB.done /\ SameSigningInputs)
    => sigA.signature = sigB.signature

\* C6: for the same nonce, keys and clock, two caller parameter sets that
\* differ in the value of exactly one key give different canonical JSON
\* strings and different signatures.
C6_SigningSensitivity ==
  (/\ sigA.done /\ sigB.done
   /\ sigA.at = sigB.at
   /\ sigIn.nonceA = sigIn.nonceB
   /\ sigIn.walletA = sigIn.walletB
   /\ DifferInExactlyOneKey(sigIn.paramsA, sigIn.paramsB))
    => (sigA.jsonStr # sigB.jsonStr /\ sigA.signature # sigB.signature)

C8_NoAutomaticRetry ==
  /\ requestsSent <= placeCalls
  /\ liveLast.sent <= liveLast.calls

\* C8 witness: a trade whose only order met a transport failure and was sent
\* once.
C8_Witness ==
  /\ liveLast.name = "executeRealTrade"
  /\ liveLast.threw
  /\ ~liveLast.rejected
  /\ liveLast.calls = 1
  /\ liveLast.sent = 1

\* C9: a syncBalanceFromAster whose balance query failed leaves balance, pnl
\* and pnlAbsolute as they were and saves nothing.
C9_SyncKeepsLastBalanceOnFailure ==
  [][(liveLast'.name = "syncBalanceFromAster" /\ liveLast'.query.threw)
       => /\ liveAgent'.balance = liveAgent.balance
          /\ liveAgent'.pnl = liveAgent.pnl
          /\ liveAgent'.pnlAbsolute = liveAgent.pnlAbsolute
          /\ savedAgent' = savedAgent]_vars

\* C9 witness: a failed synchronisation of an agent that holds a balance
\* taken from the exchange earlier.
C9_Witness ==
  /\ liveLast.name = "syncBalanceFromAster"
  /\ liveLast.query.threw
  /\ liveAgent.balance = 950
  /\ liveAgent.pnlAbsolute = -50

\* the reply carries what the query asks for
ReplyAnswers(reply) == reply.kind = "ok"
ReplyHasQuoteEntry(reply) ==
  ReplyAnswers(reply) /\ \E i \in 1..Len(reply.body) : reply.body[i].asset = "USDT"

GeminiReplyValid(reply) ==
  /\ reply.kind = "object"
  /\ reply.action \in {Str(<<"open">>), Str(<<"close">>), Str(<<"hold">>),
                       Str(<<"wait">>), Str(<<"none">>)}
  /\ reply.symbol.t = "string"
  /\ reply.confidence.t = "number"
  /\ reply.confidence.n >= 0 /\ reply.confidence.n <= 100

OpenAIReplyValid(reply) ==
  /\ reply.kind = "object"
  /\ \A c \in DOMAIN reply.decisions :
       /\ reply.decisions[c].signal \in Signals
       /\ reply.decisions[c].confidence >= 0 /\ reply.decisions[c].confidence <= 100

\* C11: a reply of the decision collaborator that fails schema validation,
\* times out or throws is mapped to the decision {action: none,
\* confidence: 0} (for the per-coin adapter: to no decision at all), and the
\* call never raises.
C11_SafeDefaultDecision ==
  unitOut.done =>
    /\ ~unitOut.raised
    /\ (unitIn.fn = "generateGeminiTradingDecision" /\ ~GeminiReplyValid(unitIn.reply))
         => (unitOut.value.action = Str(<<"none">>) /\ unitOut.value.confidence = Num(0))
    /\ (unitIn.fn = "generateAITradingDecision" /\ ~OpenAIReplyValid(unitIn.reply))
         => unitOut.value = EmptyMap

\* C12: the decision handed on always has an action of the closed set
\* {open, close, hold, wait, none} (for the per-coin adapter: a signal of
\* {long, short, close, hold, wait}); any other action collapses to none.
C12_ClosedDecisionVariants ==
  unitOut.done =>
    /\ unitIn.fn = "generateGeminiTradingDecision"
         => unitOut.value.action \in {Str(<<"open">>), Str(<<"close">>), Str(<<"hold">>),
                                      Str(<<"wait">>), Str(<<"none">>)}
    /\ unitIn.fn = "generateAITradingDecision"
         => \A c \in DOMAIN unitOut.value : unitOut.value[c].signal \in Signals

\* C13: at most one trading cycle is running at any time: a tick that fires
\* while the previous cycle has not finished starts nothing.
C13_SchedulerNonOverlap ==
  Len(cycles) <= 1

\* C14: a fetchAllPrices call that meets an unreachable endpoint or a
\* malformed (unparseable or non-list) payload fails instead of returning a
\* price map, whatever the price cache holds.
C14_MarketDataFailureReported ==
  (/\ fetchLast.name = "fetchAllPrices"
   /\ fetchLast.fetched
   /\ fetchLast.reply.kind \in {"unreachable", "badJson", "notList"})
    => fetchLast.threw

\* C15: a cycle in which market data is unavailable opens and closes no
\* position, stores no trade, and leaves the agent's stored balance at the
\* value the last reconciliation gave it.
C15_OutageIsNoOp ==
  [][(lastOp'.name \in {"updateAgentBalance", "processAgent"}
      /\ marketData'.prices = EmptyMap)
       => /\ agent'.activePositions = agent.activePositions
          /\ trades' = trades
          /\ agent'.balance = agent.balance]_vars

\* the exit a position calls for at a price, by its direction
OrientedExit(position, x) ==
  IF position.signal = "long"
  THEN IF x <= position.stop_loss THEN "stop_loss"
       ELSE IF x >= position.profit_target THEN "take_profit" ELSE "none"
  ELSE IF x >= position.stop_loss THEN "stop_loss"
       ELSE IF x <= position.profit_target THEN "take_profit" ELSE "none"

\* C16: for a long the stop-loss triggers iff price <= stop_loss and the
\* take-profit iff price >= profit_target; for a short the stop-loss iff
\* price >= stop_loss and the take-profit iff price <= profit_target; in
\* every other case nothing triggers and the position is held.
C16_ExitOrientedByDirection ==
  (unitOut.done /\ unitIn.fn = "generateAgentDecision") =>
    /\ unitOut.value.reason = OrientedExit(unitIn.position, unitIn.currentPrice)
    /\ unitOut.value.signal = "close"
         <=> OrientedExit(unitIn.position, unitIn.currentPrice) # "none"

\* q is num / den rounded down, for den > 0
IsQuotient(q, num, den) == q * den <= num /\ num < (q + 1) * den

\* the price move in favour of the position
FavourableMove(position, x) ==
  IF position.signal = "long" THEN x - position.entry_price ELSE position.entry_price - x

\* C17: with entry price e > 0, price x and notional n, the PnL percentage is
\* (x-e)/e*100 for a long and (e-x)/e*100 for a short, and the absolute PnL
\* is that percentage of n; entry 100 and price 110 give +10% long, -10% short.
C17_PnlFormula ==
  (unitOut.done /\ unitIn.fn = "calculatePnL" /\ HasPrice(unitIn.prices, "BTC")) =>
    LET position == unitIn.position
        x == unitIn.prices["BTC"]
    IN  /\ IsQuotient(unitOut.value.percent, FavourableMove(position, x) * 100,
                      position.entry_price)
        /\ IsQuotient(unitOut.value.unrealized, FavourableMove(position, x) * position.size_usd,
                      position.entry_price)
        /\ (position.entry_price = 100 /\ x = 110) =>
             unitOut.value.percent = (IF position.signal = "long" THEN 10 ELSE -10)

\* C17 witness: a short entered at 100 and priced at 110 has -10%.
C17_Witness ==
  /\ unitOut.done
  /\ unitIn.fn = "calculatePnL"
  /\ unitIn.position.signal = "short"
  /\ unitIn.position.entry_price = 100
  /\ unitIn.position.size_usd = 650
  /\ unitIn.prices = [c \in {"BTC"} |-> 110]
  /\ unitOut.value.percent = -10
  /\ unitOut.value.unrealized = -65

\* C18: for an open position whose coin has no price in the snapshot, the
\* balance calculator, the agents route and the decision request all give an
\* unrealized PnL of exactly 0.
C18_MissingPriceZeroPnl ==
  (unitOut.done /\ unitIn.fn = "calculatePnL" /\ ~HasPrice(unitIn.prices, "BTC")) =>
    /\ unitOut.value.unrealized = 0
    /\ unitOut.value.route.pnl = 0
    /\ unitOut.value.route.pnlAbsolute = 0
    /\ unitOut.value.request.unrealizedPnL = 0
    /\ unitOut.value.request.unrealizedPnLAbsolute = 0

\* C19: a second updateAgentBalance with the same exit trades, open positions
\* and prices leaves balance, pnl, pnlAbsolute, winRate and totalTrades as the
\* first run left them.
C19_ReconciliationIdempotent ==
  (unitOut.done /\ unitIn.fn = "updateAgentBalance" /\ unitOut.value.runs = 2) =>
    /\ unitOut.value.agent.balance = unitOut.value.before.balance
    /\ unitOut.value.agent.pnl = unitOut.value.before.pnl
    /\ unitOut.value.agent.pnlAbsolute = unitOut.value.before.pnlAbsolute
    /\ unitOut.value.agent.winRate = unitOut.value.before.winRate
    /\ unitOut.value.agent.totalTrades = unitOut.value.before.totalTrades

\* C19 witness: the second run over an agent with exit trades and an open
\* position whose PnL is not zero.
C19_Witness ==
  /\ unitOut.done
  /\ unitIn.fn = "updateAgentBalance"
  /\ unitOut.value.runs = 2
  /\ unitOut.value.agent.totalTrades = 2
  /\ unitIn.agent.activePositions # <<>>
  /\ unitIn.prices = [c \in {"BTC"} |-> 200]
  /\ unitOut.value.agent.balance # INITIAL_BALANCE

\* the exit trades of a collection, and those with a positive realized PnL
ExitCount(trs) == Cardinality({i \in 1..Len(trs) : trs[i].tradeType = "exit"})
WinCount(trs) ==
  Cardinality({i \in 1..Len(trs) : trs[i].tradeType = "exit" /\ trs[i].pnlAbsolute > 0})

MissingSigningInputs(ag, env) ==
  /\ \/ ag.asterUserAddress = ""
     \/ ag.asterSignerAddress = ""
     \/ /\ EnvGet(env, AgentKeyName(ToUpperCase(ag.name))) = ""
        /\ EnvGet(env, AgentKeyName(ag.name)) = ""
  /\ \/ EnvGet(env, <<"SHARED_ASTER_USER">>) = ""
     \/ EnvGet(env, <<"SHARED_ASTER_SIGNER">>) = ""
     \/ EnvGet(env, <<"SHARED_ASTER_PRIVATE_KEY">>) = ""

C21_MissingSigningInputsFailFast ==
  unitIn.fn = "processAgentTrade" =>
    \A n \in DOMAIN TurnsDone :
      (unitIn.agents[n].isPaperTrading = "false"
       /\ MissingSigningInputs(unitIn.agents[n], unitIn.env))
      => (TurnsDone[n].threw /\ ~TurnsDone[n].success /\ TurnsDone[n].sent = 0)

\* C22: a live open (long or short) is reported as successful only when the
\* order response has status FILLED; a response in any other status never
\* gives success: true.
C22_PositionsOnlyForFilledOrders ==
  (liveLast.name = "executeRealTrade" /\ liveLast.signal \in {"long", "short"}
   /\ liveLast.success)
  => liveLast.status = "FILLED"

\* C23: a decision whose signal is hold or wait sends no order to the
\* exchange and opens no position, in the paper trade and in the live trade.
C23_HoldAndWaitNeverTrade ==
  (unitIn.fn = "trade" /\ unitOut.done /\ unitIn.decision.signal \in {"hold", "wait"})
  => (unitOut.value.sent = <<>> /\ ~unitOut.value.opened)

\* C24: a turn that awaits an external call (market data, decision, exchange)
\* always comes to its end, whether or not the remote side ever answers.
C24_BoundedExternalCalls == TurnUnderWay ~> ~TurnUnderWay

\* C25: two distinct agents that both trade live never resolve to the same
\* exchange account: their wallet configurations differ in the account
\* address and in the signer.
C25_LiveAgentsDisjoint ==
  unitIn.fn = "processAgentTrade" =>
    \A n \in DOMAIN TurnsDone, m \in DOMAIN TurnsDone :
      (n # m /\ TurnsDone[n].mode = "live" /\ TurnsDone[m].mode = "live")
      => (TurnsDone[n].account # TurnsDone[m].account
          /\ TurnsDone[n].signer # TurnsDone[m].signer)

\* C26: the recvWindow and the timestamp a request carries are the ones in
\* the canonical string that was signed for it: that string is the canonical
\* string of the request's own parameters, recvWindow and timestamp.
CanonicalOfRequest(request) ==
  CanonicalJson(trimAndSortParams(
    Merge(request.params,
          [k \in {"recvWindow", "timestamp"} |->
             IF k = "recvWindow" THEN Num(request.recvWindow) ELSE Num(request.timestamp)])))

C26_SignedEqualsSubmitted ==
  \A i \in 1..Len(pending) :
    ("pc" \in DOMAIN pending[i] /\ pending[i].pc = "sent")
    => pending[i].jsonStr = CanonicalOfRequest(pending[i].request)

\* C27: when executeRealTrade returns success: false, the entry order of that
\* call was not filled on the exchange, neither wholly nor in part.
C27_FailedTradeMeansNothingFilled ==
  (liveLast.name = "executeRealTrade" /\ ~liveLast.success)
  => liveLast.status \notin {"FILLED", "PARTIALLY_FILLED"}

\* C28: two requests signed with the same signer carry different nonces, and
\* the later of the two carries the greater nonce.
C28_NonceUniqueness ==
  \A i \in 1..Len(pending), j \in 1..Len(pending) :
    (i < j /\ "nonce" \in DOMAIN pending[i] /\ "nonce" \in DOMAIN pending[j]
     /\ pending[i].walletConfig.signer = pending[j].walletConfig.signer)
    => pending[i].nonce < pending[j].nonce

\* C29: whatever the order in which concurrent fetchAllPrices calls settle,
\* the timestamp of the cache never decreases; the timestamp being the start
\* of the fetch that filled the cache, the cached map is never replaced by
\* the result of a fetch that started earlier.
C29_PriceCacheMonotone ==
  [][priceCache'.timestamp >= priceCache.timestamp]_vars

\* C30: at most one mongoose.connect attempt is under way at a time, and the
\* callers that awaited the same attempt and returned hold the same
\* connection, the one of that attempt, which is the cached one.
AttemptsInFlight == {p \in 1..Len(promises) : promises[p].state = "pending"}

C30_SingleConnectionAttempt ==
  /\ Cardinality(AttemptsInFlight) <= 1
  /\ \A i \in 1..Len(pending), j \in 1..Len(pending) :
       ("conn" \in DOMAIN pending[i] /\ "conn" \in DOMAIN pending[j]
        /\ pending[i].pc = "returned" /\ pending[j].pc = "returned"
        /\ pending[i].promise # 0 /\ pending[i].promise = pending[j].promise)
       => (pending[i].conn = pending[j].conn /\ pending[i].conn = cached.conn)

\* C30 (witness): two callers called connectDB while there was no connection,
\* awaited the same attempt and both returned
C30_Witness ==
  /\ Len(promises) = 1
  /\ \E i \in 1..Len(pending), j \in 1..Len(pending) :
       /\ i # j
       /\ "conn" \in DOMAIN pending[i] /\ "conn" \in DOMAIN pending[j]
       /\ pending[i].pc = "returned" /\ pending[j].pc = "returned"
       /\ pending[i].promise = 1 /\ pending[j].promise = 1

====
